---------------------------- MODULE Spec2Model ----------------------------
(***************************************************************************)
(* State-machine model of the greymatter DAC controller firmware:          *)
(*   - ScpiParser        (src/src/scpi_parser.cpp)                         *)
(*   - BoardManager      (src/board_manager.cpp)                           *)
(*   - CalStorage        (src/cal_storage.cpp)                             *)
(*   - LTC2662 / LTC2664 (src/src/ltc2662.cpp, src/ltc2664.cpp)            *)
(*   - DacDevice         (src/src/dac_device.cpp)                          *)
(*   - SpiManager        (src/spi_manager.cpp)                             *)
(*   - IoExpander        (src/software/src/io_expander.cpp, and the copy   *)
(*                        of the other source tree, src/io_expander.cpp)   *)
(*                                                                         *)
(* Text is a sequence of one-character strings; the terminating NUL of a   *)
(* C string is read as the pseudo character NUL.  A float is a fixed-point *)
(* integer counting thousandths (1.0 is 1000).                             *)
(***************************************************************************)
EXTENDS Integers, Sequences, FiniteSets, TLC

VARIABLES
    single_board_mode,  \* build variant: SINGLE_BOARD_MODE defined or not
    software_tree,      \* build variant: IoExpander is compiled from
                        \*   src/software/src/io_expander.cpp (TRUE) or
                        \*   from src/io_expander.cpp (FALSE)
    pc,                 \* "boot" (constructed), "ready" (command loop), "ub"
    line,               \* the line handed to the parser by the last step
    cmd,                \* the ScpiCommand the parser produced for it
    response,           \* the response string of the last step
    dacs,               \* [board][dac] -> NullDac or the device object
    resolution_,        \* BoardManager::resolution_[board][dac]
    serial_numbers_,    \* BoardManager::serial_numbers_[board]
    calibration_,       \* BoardManager::calibration_[board][dac][channel]
    flash,              \* the calibration sector of the flash
    frames,             \* DAC frames sent on the bus during the last step
    ldac_pulses,        \* latch pulses issued during the last step
    bus,                \* what the last step did on the bus and the select
                        \*   lines, in order
    newlines,           \* line breaks in the response of the last step
    fault_pins,         \* the fault inputs as the last step found them
    faults,             \* what read_faults returned in the last step
    oob,                \* the last step indexed a per-board array with a
                        \*   board index past its end
    spi_,               \* SpiManager and the pins it drives: the selected
                        \*   device and the chip-select and CLR pins of the
                        \*   single-board build, expander_cache_[0] and the
                        \*   output latches of expander 0 otherwise
    saved               \* ghost: live calibration state at the last save
                        \*        that answered OK, NoSave after an erase

vars == <<single_board_mode, software_tree, pc, line, cmd, response, dacs,
          resolution_, serial_numbers_, calibration_, flash, frames,
          ldac_pulses, bus, newlines, fault_pins, faults, oob, spi_,
          saved>>

-----------------------------------------------------------------------------
(* Program constants *)

DACS_PER_BOARD == 3
MAX_CHANNELS_PER_DAC == 5
SERIAL_NUMBER_MAX_LEN == 32
EXPANDER_0 == 0
REG_GPIOA == 18
OPCODE_BASE == 64
D_EN_BIT == 5
LDAC_BIT == 6
CLR_BIT == 7
REG_GPIOB == 19
NONE_SELECTED == 255
FLASH_SECTOR_SIZE == 4096
FLASH_PAGE_SIZE == 256
RESERVED_BYTES == 256
HEADER_BYTES == 8
CHANNEL_CAL_BYTES == 9
DEFAULT_CURRENT_DAC_RESOLUTION == 16
DEFAULT_VOLTAGE_DAC_RESOLUTION == 12
LTC2662_NUM_CHANNELS == 5
LTC2664_NUM_CHANNELS == 4
\* 0x47524D43; a 32-bit word is the pair of its 16-bit halves, high first
CAL_MAGIC == <<18258, 19779>>
CAL_VERSION == 1

NUM_BOARDS == IF single_board_mode THEN 1 ELSE 8

Boards == 0 .. (NUM_BOARDS - 1)
Dacs == 0 .. (DACS_PER_BOARD - 1)
Channels == 0 .. (MAX_CHANNELS_PER_DAC - 1)

-----------------------------------------------------------------------------
(* Characters *)

NUL == "NUL"

At(s, i) == IF i >= 1 /\ i <= Len(s) THEN s[i] ELSE NUL

LowerCase ==
    <<"a", "b", "c", "d", "e", "f", "g", "h", "i", "j", "k", "l", "m",
      "n", "o", "p", "q", "r", "s", "t", "u", "v", "w", "x", "y", "z">>

UpperCase ==
    <<"A", "B", "C", "D", "E", "F", "G", "H", "I", "J", "K", "L", "M",
      "N", "O", "P", "Q", "R", "S", "T", "U", "V", "W", "X", "Y", "Z">>

UpperOf == [c \in {LowerCase[i] : i \in 1 .. 26} |->
               UpperCase[CHOOSE i \in 1 .. 26 : LowerCase[i] = c]]

toupper(c) == IF c \in DOMAIN UpperOf THEN UpperOf[c] ELSE c

HexDigits ==
    <<"0", "1", "2", "3", "4", "5", "6", "7", "8", "9",
      "A", "B", "C", "D", "E", "F">>

DigitValue == [c \in {HexDigits[i] : i \in 1 .. 16} |->
                  (CHOOSE i \in 1 .. 16 : HexDigits[i] = c) - 1]

isdigit(c) == c \in {"0", "1", "2", "3", "4", "5", "6", "7", "8", "9"}

isspace(c) == c \in {" ", "\t", "\n", "\r"}

\* digit value of c in the given base, or -1
DigitIn(c, base) ==
    IF toupper(c) \in DOMAIN DigitValue /\ DigitValue[toupper(c)] < base
    THEN DigitValue[toupper(c)] ELSE -1

\* strncasecmp_local(s + pos - 1, kw, Len(kw)) == 0
RECURSIVE MatchFrom(_, _, _, _)
MatchFrom(s, pos, kw, i) ==
    IF i > Len(kw) THEN TRUE
    ELSE IF toupper(At(s, pos + i - 1)) # toupper(kw[i]) THEN FALSE
    ELSE MatchFrom(s, pos, kw, i + 1)

strncasecmp_local(s, pos, kw) == MatchFrom(s, pos, kw, 1)

RECURSIVE skip_whitespace(_, _)
skip_whitespace(s, pos) ==
    IF pos <= Len(s) /\ isspace(s[pos]) THEN skip_whitespace(s, pos + 1)
    ELSE pos

\* strchr(s + pos - 1, c): position of the first c at or after pos, 0 if none
RECURSIVE strchr(_, _, _)
strchr(s, pos, c) ==
    IF pos > Len(s) THEN 0
    ELSE IF s[pos] = c THEN pos
    ELSE strchr(s, pos + 1, c)

-----------------------------------------------------------------------------
(* Numeric parsing *)

\* the digit loop of strtol: [v |-> value, end |-> first position not used]
RECURSIVE AccumDigits(_, _, _, _)
AccumDigits(s, pos, base, acc) ==
    IF DigitIn(At(s, pos), base) < 0 THEN [v |-> acc, end |-> pos]
    ELSE AccumDigits(s, pos + 1, base, acc * base + DigitIn(At(s, pos), base))

\* the position after an optional sign at p0
SignEnd(s, p0) == IF At(s, p0) \in {"+", "-"} THEN p0 + 1 ELSE p0

\* strtol, base 0: a "0x" prefix with a hex digit after it
HexPrefix(s, p1) ==
    /\ At(s, p1) = "0"
    /\ toupper(At(s, p1 + 1)) = "X"
    /\ DigitIn(At(s, p1 + 2), 16) >= 0

\* strtol, base 0: the digits from p1 on, hex, octal or decimal
StrtolDigits(s, p1) ==
    IF HexPrefix(s, p1) THEN AccumDigits(s, p1 + 2, 16, 0)
    ELSE IF At(s, p1) = "0" THEN AccumDigits(s, p1, 8, 0)
    ELSE AccumDigits(s, p1, 10, 0)

\* strtol's result from the digits r read after the sign at p0: no digits
\* leaves end at the start of the input
StrtolResult(s, pos, p0, r) ==
    [v |-> IF At(s, p0) = "-" THEN 0 - r.v ELSE r.v,
     end |-> IF ~HexPrefix(s, SignEnd(s, p0)) /\ r.end = SignEnd(s, p0)
             THEN pos ELSE r.end]

StrtolFrom(s, pos, p0) ==
    StrtolResult(s, pos, p0, StrtolDigits(s, SignEnd(s, p0)))

\* std::strtol(str, &end, 0): optional sign, then 0x hex, 0 octal or decimal
strtol0(s, pos) == StrtolFrom(s, pos, skip_whitespace(s, pos))

\* parse_int's verdict on what strtol returned for the text at str
ParseIntResult(str, r) ==
    IF r.end = str THEN [ok |-> FALSE, value |-> 0]
    ELSE IF r.v < 0 \/ r.v > 65535 THEN [ok |-> FALSE, value |-> 0]
    ELSE [ok |-> TRUE, value |-> r.v]

ParseIntAt(s, str) == ParseIntResult(str, strtol0(s, str))

\* ScpiParser::parse_int: [ok, value]
parse_int(s, pos) == ParseIntAt(s, skip_whitespace(s, pos))

\* the fraction digits of strtof, kept to thousandths
RECURSIVE AccumFraction(_, _, _, _)
AccumFraction(s, pos, scale, acc) ==
    IF ~isdigit(At(s, pos)) THEN [v |-> acc, end |-> pos]
    ELSE AccumFraction(s, pos + 1, scale \div 10,
                       acc + DigitValue[s[pos]] * scale)

\* strtof: the fraction after the integer digits ip
StrtofFraction(s, ip) ==
    IF At(s, ip.end) = "." THEN AccumFraction(s, ip.end + 1, 100, 0)
    ELSE [v |-> 0, end |-> ip.end]

\* strtof's result from the integer digits ip read at p1 and the fraction fp
StrtofResult(s, pos, p0, ip, fp) ==
    IF (ip.end - SignEnd(s, p0)) +
       (IF At(s, ip.end) = "." THEN fp.end - (ip.end + 1) ELSE 0) = 0
    THEN [v |-> 0, end |-> pos]
    ELSE [v |-> IF At(s, p0) = "-" THEN 0 - (ip.v * 1000 + fp.v)
                ELSE ip.v * 1000 + fp.v,
          end |-> fp.end]

StrtofInteger(s, pos, p0, ip) ==
    StrtofResult(s, pos, p0, ip, StrtofFraction(s, ip))

StrtofFrom(s, pos, p0) ==
    StrtofInteger(s, pos, p0, AccumDigits(s, SignEnd(s, p0), 10, 0))

\* std::strtof(str, &end) for decimal literals [sign] digits [. digits]
strtof(s, pos) == StrtofFrom(s, pos, skip_whitespace(s, pos))

ParseFloatResult(str, r) == [ok |-> r.end # str, value |-> r.v]

ParseFloatAt(s, str) == ParseFloatResult(str, strtof(s, str))

\* ScpiParser::parse_float: [ok, value]
parse_float(s, pos) == ParseFloatAt(s, skip_whitespace(s, pos))

\* ScpiParser::extract_index: the digit after the prefix, or -1
extract_index(s, pos, prefix) ==
    IF ~strncasecmp_local(s, pos, prefix) THEN -1
    ELSE IF ~isdigit(At(s, pos + Len(prefix))) THEN -1
    ELSE DigitValue[At(s, pos + Len(prefix))]

-----------------------------------------------------------------------------
(* ScpiParser *)

\* a default-constructed ScpiCommand
NewCommand ==
    [type |-> "UNKNOWN", is_query |-> FALSE,
     board_id |-> -1, dac_id |-> -1, channel_id |-> -1,
     float_value |-> 0, int_value |-> 0,
     has_float |-> FALSE, has_int |-> FALSE,
     string_value |-> <<>>, has_string |-> FALSE,
     valid |-> FALSE, error_msg |-> ""]

\* a parse helper's outcome: what it returned and the command it left behind
Ret(matched, c) == [matched |-> matched, c |-> c]

Fail(c, msg) == Ret(FALSE, [c EXCEPT !.error_msg = msg])

Query(c, type) ==
    Ret(TRUE, [c EXCEPT !.type = type, !.is_query = TRUE, !.valid = TRUE])

Plain(c, type) == Ret(TRUE, [c EXCEPT !.type = type, !.valid = TRUE])

\* "<verb> <float>" once parse_float has returned f
FloatValue(c, setType, msg, f) ==
    IF ~f.ok THEN Fail([c EXCEPT !.type = setType], msg)
    ELSE Ret(TRUE, [c EXCEPT !.type = setType, !.float_value = f.value,
                             !.has_float = TRUE, !.valid = TRUE])

\* "<verb>?" or "<verb> <float>"
FloatVerb(s, p, c, getType, setType, msg) ==
    IF At(s, p) = "?" THEN Query(c, getType)
    ELSE FloatValue(c, setType, msg, parse_float(s, skip_whitespace(s, p)))

\* "<verb> <int>" once parse_int has returned n
IntValue(c, setType, msg, n) ==
    IF ~n.ok THEN Fail([c EXCEPT !.type = setType], msg)
    ELSE Ret(TRUE, [c EXCEPT !.type = setType, !.int_value = n.value,
                             !.has_int = TRUE, !.valid = TRUE])

\* "<verb> <int>"
IntVerb(s, p, c, setType, msg) ==
    IntValue(c, setType, msg, parse_int(s, skip_whitespace(s, p)))

parse_common_command(s, pos, c) ==
    IF At(s, pos) # "*" THEN Ret(FALSE, c)
    ELSE IF strncasecmp_local(s, pos + 1, <<"I", "D", "N", "?">>)
         THEN Query(c, "IDN_QUERY")
    ELSE IF strncasecmp_local(s, pos + 1, <<"R", "S", "T">>)
         THEN Plain(c, "RST")
    ELSE Ret(FALSE, c)

parse_system_command(s, pos, c) ==
    IF strncasecmp_local(s, pos, <<"F", "A", "U", "L", "T", "?">>)
    THEN Query(c, "FAULT_QUERY")
    ELSE IF strncasecmp_local(s, pos, <<"L", "D", "A", "C">>)
    THEN Plain(c, "PULSE_LDAC")
    ELSE IF strncasecmp_local(s, pos,
                <<"U", "P", "D", "A", "T", "E", ":", "A", "L", "L">>)
    THEN Plain(c, "UPDATE_ALL")
    ELSE IF strncasecmp_local(s, pos,
                <<"S", "Y", "S", "T", ":", "E", "R", "R", "?">>)
    THEN Query(c, "SYST_ERR_QUERY")
    ELSE IF strncasecmp_local(s, pos,
                <<"C", "A", "L", ":", "D", "A", "T", "A", "?">>)
    THEN Query(c, "CAL_DATA_QUERY")
    ELSE IF strncasecmp_local(s, pos,
                <<"C", "A", "L", ":", "C", "L", "E", "A", "R">>)
    THEN Plain(c, "CAL_CLEAR")
    ELSE IF strncasecmp_local(s, pos, <<"C", "A", "L", ":", "S", "A", "V", "E">>)
    THEN Plain(c, "CAL_SAVE")
    ELSE IF strncasecmp_local(s, pos, <<"C", "A", "L", ":", "L", "O", "A", "D">>)
    THEN Plain(c, "CAL_LOAD")
    ELSE Ret(FALSE, c)

\* the characters from p up to the first newline or the end
RECURSIVE RestOfLine(_, _)
RestOfLine(s, p) ==
    IF p > Len(s) \/ s[p] \in {"\n", "\r"} THEN <<>>
    ELSE <<s[p]>> \o RestOfLine(s, p + 1)

\* the loop that drops trailing whitespace: the length that is left
RECURSIVE TrimmedLen(_, _)
TrimmedLen(sn, n) ==
    IF n > 0 /\ isspace(sn[n]) THEN TrimmedLen(sn, n - 1) ELSE n

TrimTrailing(sn) == SubSeq(sn, 1, TrimmedLen(sn, Len(sn)))

\* BOARD<n>:SN <text> once the text has been cut out
SerialValue(c, sn) ==
    IF sn = <<>> THEN Fail([c EXCEPT !.type = "SET_SERIAL"],
                           "Serial number required")
    ELSE Ret(TRUE, [c EXCEPT !.type = "SET_SERIAL", !.string_value = sn,
                             !.has_string = TRUE, !.valid = TRUE])

\* BOARD<n>:SN...   (p is just past "SN")
ParseSerial(s, p, c) ==
    IF At(s, p) = "?" THEN Query(c, "GET_SERIAL")
    ELSE SerialValue(c, TrimTrailing(RestOfLine(s, skip_whitespace(s, p))))

\* ...:CH<c>:CAL:<what>   (p is just past "CAL:")
ParseChannelCal(s, p, c) ==
    IF strncasecmp_local(s, p, <<"G", "A", "I", "N">>)
    THEN FloatVerb(s, p + 4, c, "GET_CAL_GAIN", "SET_CAL_GAIN",
                   "Invalid gain value")
    ELSE IF strncasecmp_local(s, p, <<"O", "F", "F", "S">>)
    THEN FloatVerb(s, p + 4, c, "GET_CAL_OFFSET", "SET_CAL_OFFSET",
                   "Invalid offset value")
    ELSE IF strncasecmp_local(s, p, <<"E", "N">>)
    THEN IF At(s, p + 2) = "?" THEN Query(c, "GET_CAL_ENABLE")
         ELSE IntVerb(s, p + 2, c, "SET_CAL_ENABLE",
                      "Invalid enable value (0 or 1)")
    ELSE Fail(c, "Unknown calibration command (use GAIN, OFFS, or EN)")

\* ...:CH<c>:<verb>   (q is just past the colon that follows CH<c>)
ChannelVerb(s, q, c1) ==
    IF strncasecmp_local(s, q, <<"V", "O", "L", "T">>)
    THEN FloatVerb(s, q + 4, c1, "GET_VOLTAGE", "SET_VOLTAGE",
                   "Invalid voltage value")
    ELSE IF strncasecmp_local(s, q, <<"C", "U", "R", "R">>)
    THEN FloatVerb(s, q + 4, c1, "GET_CURRENT", "SET_CURRENT",
                   "Invalid current value")
    ELSE IF strncasecmp_local(s, q, <<"C", "O", "D", "E">>)
    THEN IntVerb(s, q + 4, c1, "SET_CODE", "Invalid code value")
    ELSE IF strncasecmp_local(s, q, <<"P", "D", "O", "W", "N">>)
    THEN Plain(c1, "POWER_DOWN")
    ELSE IF strncasecmp_local(s, q, <<"C", "A", "L", ":">>)
    THEN ParseChannelCal(s, q + 4, c1)
    ELSE Fail(c1, "Unknown channel command")

\* ...:CH<c>:<verb> once the index ch and the next colon have been found
ChannelIndexed(s, c, ch, colon) ==
    IF ch < 0 \/ ch > 4 THEN Fail(c, "Invalid channel number (0-4)")
    ELSE IF colon = 0
    THEN Fail([c EXCEPT !.channel_id = ch], "Expected command after CH")
    ELSE ChannelVerb(s, colon + 1, [c EXCEPT !.channel_id = ch])

\* ...:CH<c>:<verb>   (p is at "CH")
ParseChannel(s, p, c) ==
    ChannelIndexed(s, c, extract_index(s, p, <<"C", "H">>), strchr(s, p, ":"))

\* ...:DAC<m>:SPAN[:ALL] <value>   (p is just past "SPAN")
ParseSpan(s, p, c) ==
    IF At(s, p) = ":" /\ strncasecmp_local(s, p + 1, <<"A", "L", "L">>)
    THEN IntVerb(s, p + 4, c, "SET_ALL_SPAN", "Invalid span value")
    ELSE IntVerb(s, p, c, "SET_SPAN", "Invalid span value")

\* ...:DAC<m>:RES <value> once parse_int has returned n
ResolutionValue(c, n) ==
    IF ~n.ok THEN Fail([c EXCEPT !.type = "SET_RESOLUTION"],
                       "Invalid resolution value (12 or 16)")
    ELSE IF n.value # 12 /\ n.value # 16
    THEN Fail([c EXCEPT !.type = "SET_RESOLUTION", !.int_value = n.value],
              "Resolution must be 12 or 16")
    ELSE Ret(TRUE, [c EXCEPT !.type = "SET_RESOLUTION",
                             !.int_value = n.value,
                             !.has_int = TRUE, !.valid = TRUE])

\* ...:DAC<m>:RES...   (p is just past "RES")
ParseResolution(s, p, c) ==
    IF At(s, p) = "?" THEN Query(c, "GET_RESOLUTION")
    ELSE ResolutionValue(c, parse_int(s, skip_whitespace(s, p)))

\* BOARD<n>:DAC<m>:<rest>   (q is just past the colon that follows DAC<m>)
DacVerb(s, q, c1) ==
    IF strncasecmp_local(s, q, <<"C", "H">>)
    THEN ParseChannel(s, q, c1)
    ELSE IF strncasecmp_local(s, q, <<"S", "P", "A", "N">>)
    THEN ParseSpan(s, q + 4, c1)
    ELSE IF strncasecmp_local(s, q, <<"U", "P", "D", "A", "T", "E">>)
    THEN Plain(c1, "UPDATE")
    ELSE IF strncasecmp_local(s, q, <<"P", "D", "O", "W", "N">>)
    THEN Plain(c1, "POWER_DOWN_CHIP")
    ELSE IF strncasecmp_local(s, q, <<"R", "E", "S">>)
    THEN ParseResolution(s, q + 3, c1)
    ELSE Fail(c1, "Unknown DAC command")

\* BOARD<n>:DAC<m>:... once the index dac and the next colon have been found
DacIndexed(s, p, c, dac, colon) ==
    IF ~strncasecmp_local(s, p, <<"D", "A", "C">>)
    THEN Fail(c, "Expected DAC<n>")
    ELSE IF dac < 0 \/ dac > 2 THEN Fail(c, "Invalid DAC number (0-2)")
    ELSE IF colon = 0
    THEN Fail([c EXCEPT !.dac_id = dac], "Expected command after DAC")
    ELSE DacVerb(s, colon + 1, [c EXCEPT !.dac_id = dac])

\* BOARD<n>:DAC<m>:...   (p is at "DAC")
ParseDac(s, p, c) ==
    DacIndexed(s, p, c, extract_index(s, p, <<"D", "A", "C">>),
               strchr(s, p, ":"))

\* BOARD<n>:... once the index board and the first colon have been found
BoardIndexed(s, pos, c, board, colon) ==
    IF ~strncasecmp_local(s, pos, <<"B", "O", "A", "R", "D">>)
    THEN Ret(FALSE, c)
    ELSE IF board < 0 \/ board > 7
    THEN Fail(c, "Invalid board number (0-7)")
    ELSE IF colon = 0
    THEN Fail([c EXCEPT !.board_id = board],
              "Expected :DAC or :SN after BOARD")
    ELSE IF strncasecmp_local(s, colon + 1, <<"S", "N">>)
    THEN ParseSerial(s, colon + 3, [c EXCEPT !.board_id = board])
    ELSE ParseDac(s, colon + 1, [c EXCEPT !.board_id = board])

parse_board_command(s, pos, c) ==
    BoardIndexed(s, pos, c, extract_index(s, pos, <<"B", "O", "A", "R", "D">>),
                 strchr(s, pos, ":"))

\* parse: parse_board_command has returned r
AfterBoard(r) ==
    IF r.matched THEN r.c ELSE [r.c EXCEPT !.error_msg = "Unknown command"]

\* parse: parse_system_command has returned r
AfterSystem(s, pos, r) ==
    IF r.matched THEN r.c ELSE AfterBoard(parse_board_command(s, pos, r.c))

\* parse: parse_common_command has returned r
AfterCommon(s, pos, r) ==
    IF r.matched THEN r.c
    ELSE AfterSystem(s, pos, parse_system_command(s, pos, r.c))

\* parse: line points at pos, after the leading whitespace
ParseAt(s, pos) ==
    IF pos > Len(s) THEN [NewCommand EXCEPT !.error_msg = "Empty command"]
    ELSE AfterCommon(s, pos, parse_common_command(s, pos, NewCommand))

\* ScpiParser::parse(const char* line)
parse(s) == ParseAt(s, skip_whitespace(s, 1))

-----------------------------------------------------------------------------
(* DacDevice, LTC2662, LTC2664 *)

WRITE_CODE_N == 0
WRITE_UPDATE_N == 3
POWER_DOWN_N == 4
POWER_DOWN_CHIP == 5
WRITE_SPAN_N == 6
UPDATE_ALL == 9
WRITE_SPAN_ALL == 14

MA_3_125 == 1
V_PM10 == 3
V_PM2_5 == 4

\* LTC2662_FS_CURRENT, in thousandths of a milliampere
LTC2662_FS_CURRENT ==
    <<0, 3125, 6250, 12500, 25000, 50000, 100000, 200000,
      0, 0, 0, 0, 0, 0, 0, 300000>>

\* LTC2664_SPAN_INFO, in thousandths of a volt
LTC2664_SPAN_INFO ==
    <<[min_v |-> 0, max_v |-> 5000, bipolar |-> FALSE],
      [min_v |-> 0, max_v |-> 10000, bipolar |-> FALSE],
      [min_v |-> -5000, max_v |-> 5000, bipolar |-> TRUE],
      [min_v |-> -10000, max_v |-> 10000, bipolar |-> TRUE],
      [min_v |-> -2500, max_v |-> 2500, bipolar |-> TRUE]>>

\* the value a function that ends without a return statement hands back
\* besides the value it had just computed
GarbageCode == 43981

\* a device object in its storage slot, before setup(); ptr is the
\* current_dacs_ / voltage_dacs_ pointer to it (FALSE is nullptr)
NewDevice(dac) ==
    [ptr |-> FALSE, board_id |-> 0, device_id |-> 0,
     resolution_bits |-> 16, max_code |-> 65535,
     span |-> [ch \in 0 .. ((IF dac < 2 THEN LTC2662_NUM_CHANNELS
                                       ELSE LTC2664_NUM_CHANNELS) - 1) |-> 0]]

get_num_channels(dev) == Cardinality(DOMAIN dev.span)

IsCurrentDac(dev) == get_num_channels(dev) = LTC2662_NUM_CHANNELS

\* send_command putting the low data byte before the high one
send_command_LowByteFirst(dev, command, address, data) ==
    [board |-> dev.board_id, device |-> dev.device_id,
     bytes |-> <<(command % 16) * 16 + (address % 16),
                 data % 256, (data \div 256) % 256>>]

\* DacDevice::send_command: the frame handed to SpiManager::transaction
send_command(dev, command, address, data) ==
    [board |-> dev.board_id, device |-> dev.device_id,
     bytes |-> <<(command % 16) * 16 + (address % 16),
                 (data \div 256) % 256, data % 256>>]

\* a device operation's outcome: the device afterwards and the frames sent
Op(dev, out) == [dev |-> dev, out |-> out]

\* LTC2662::setup and LTC2664::setup
setup(dev, board, device, resolution_bits) ==
    [dev EXCEPT !.board_id = board, !.device_id = device,
                !.resolution_bits = IF resolution_bits = 12 THEN 12 ELSE 16,
                !.max_code = IF resolution_bits = 12 THEN 4095 ELSE 65535]

update_all(dev) == Op(dev, <<send_command(dev, UPDATE_ALL, 0, 0)>>)

power_down_chip(dev) == Op(dev, <<send_command(dev, POWER_DOWN_CHIP, 0, 0)>>)

power_down(dev, channel) ==
    IF channel >= get_num_channels(dev) THEN Op(dev, <<>>)
    ELSE Op(dev, <<send_command(dev, POWER_DOWN_N, channel, 0)>>)

\* LTC2662::write_code and LTC2664::write_code
write_code(dev, channel, code) ==
    IF channel >= get_num_channels(dev) THEN Op(dev, <<>>)
    ELSE IF IsCurrentDac(dev) /\ dev.resolution_bits = 12
    THEN Op(dev, <<send_command(dev, WRITE_CODE_N, channel,
                                (code * 16) % 65536)>>)
    ELSE Op(dev, <<send_command(dev, WRITE_CODE_N, channel, code)>>)

\* write_and_update sending the code as it came at either resolution
write_and_update_Unshifted(dev, channel, code) ==
    IF channel >= get_num_channels(dev) THEN Op(dev, <<>>)
    ELSE Op(dev, <<send_command(dev, WRITE_UPDATE_N, channel, code)>>)

write_and_update(dev, channel, code) ==
    IF channel >= get_num_channels(dev) THEN Op(dev, <<>>)
    ELSE IF IsCurrentDac(dev) /\ dev.resolution_bits = 12
    THEN Op(dev, <<send_command(dev, WRITE_UPDATE_N, channel,
                                (code * 16) % 65536)>>)
    ELSE Op(dev, <<send_command(dev, WRITE_UPDATE_N, channel, code)>>)

\* set_span adding the code to the cached one
set_span_Accumulates(dev, channel, span_code) ==
    IF channel >= get_num_channels(dev) THEN Op(dev, <<>>)
    ELSE Op([dev EXCEPT !.span[channel] =
                           (dev.span[channel] + span_code) % 256],
            <<send_command(dev, WRITE_SPAN_N, channel, span_code % 16)>>)

set_span(dev, channel, span_code) ==
    IF channel >= get_num_channels(dev) THEN Op(dev, <<>>)
    ELSE IF IsCurrentDac(dev)
    THEN Op([dev EXCEPT !.span[channel] = span_code],
            <<send_command(dev, WRITE_SPAN_N, channel, span_code % 16)>>)
    ELSE IF span_code > V_PM2_5 THEN Op(dev, <<>>)
    ELSE Op([dev EXCEPT !.span[channel] = span_code],
            <<send_command(dev, WRITE_SPAN_N, channel, span_code % 8)>>)

set_span_all(dev, span_code) ==
    IF IsCurrentDac(dev)
    THEN Op([dev EXCEPT !.span = [ch \in DOMAIN dev.span |-> span_code]],
            <<send_command(dev, WRITE_SPAN_ALL, 0, span_code % 16)>>)
    ELSE IF span_code > V_PM2_5 THEN Op(dev, <<>>)
    ELSE Op([dev EXCEPT !.span = [ch \in DOMAIN dev.span |-> span_code]],
            <<send_command(dev, WRITE_SPAN_ALL, 0, span_code % 8)>>)

\* LTC2662::init and LTC2664::init
init(dev) ==
    LET a == set_span_all(dev, IF IsCurrentDac(dev) THEN MA_3_125 ELSE V_PM10)
        b == update_all(a.dev)
    IN  Op(b.dev, a.out \o b.out)

\* voltage_to_code scaling the voltage by the full-scale value without
\* taking the lower end of the span off
voltage_to_code_Unipolar(dev, channel, voltage) ==
    LET span == dev.span[channel]
        min_v == IF span > V_PM2_5 THEN 0 ELSE LTC2664_SPAN_INFO[span + 1].min_v
        max_v == IF span > V_PM2_5 THEN 0 ELSE LTC2664_SPAN_INFO[span + 1].max_v
        range == max_v - min_v
        v == IF voltage < min_v THEN min_v
             ELSE IF voltage > max_v THEN max_v ELSE voltage
    IN  IF channel >= LTC2664_NUM_CHANNELS THEN 0
        ELSE IF range <= 0 THEN 0
        ELSE (v * dev.max_code + range \div 2) \div range

\* LTC2664::voltage_to_code, in thousandths of a volt: the quotient is
\* rounded to the nearest code (+ 0.5 and truncation); every range of
\* LTC2664_SPAN_INFO is even, so half a range is exact
voltage_to_code(dev, channel, voltage) ==
    LET span == dev.span[channel]
        min_v == IF span > V_PM2_5 THEN 0 ELSE LTC2664_SPAN_INFO[span + 1].min_v
        max_v == IF span > V_PM2_5 THEN 0 ELSE LTC2664_SPAN_INFO[span + 1].max_v
        range == max_v - min_v
        v == IF voltage < min_v THEN min_v
             ELSE IF voltage > max_v THEN max_v ELSE voltage
    IN  IF channel >= LTC2664_NUM_CHANNELS THEN 0
        ELSE IF range <= 0 THEN 0
        ELSE ((v - min_v) * dev.max_code + range \div 2) \div range

\* LTC2664::code_to_voltage, in thousandths of a volt, as the exact
\* quotient num / den
code_to_voltage(dev, channel, code) ==
    LET span == dev.span[channel]
        min_v == IF span > V_PM2_5 THEN 0 ELSE LTC2664_SPAN_INFO[span + 1].min_v
        max_v == IF span > V_PM2_5 THEN 0 ELSE LTC2664_SPAN_INFO[span + 1].max_v
        range == max_v - min_v
    IN  IF channel >= LTC2664_NUM_CHANNELS THEN [num |-> 0, den |-> 1]
        ELSE IF range <= 0 THEN [num |-> 0, den |-> 1]
        ELSE [num |-> min_v * dev.max_code + code * range,
              den |-> dev.max_code]

\* LTC2664::set_voltage
set_voltage(dev, channel, voltage) ==
    IF channel >= LTC2664_NUM_CHANNELS THEN Op(dev, <<>>)
    ELSE write_and_update(dev, channel, voltage_to_code(dev, channel, voltage))

\* LTC2662::get_full_scale_ma
get_full_scale_ma(dev, channel) ==
    IF channel >= LTC2662_NUM_CHANNELS THEN 0
    ELSE IF dev.span[channel] > 15 THEN 0
    ELSE LTC2662_FS_CURRENT[dev.span[channel] + 1]

\* LTC2662::current_ma_to_code: the set of values the call can yield.  The
\* two early exits return 0; the main path computes the code and then runs
\* off the end of the function without a return statement.
current_ma_to_code(dev, channel, current_ma) ==
    LET fs == get_full_scale_ma(dev, channel)
        ma == IF current_ma < 0 THEN 0
              ELSE IF current_ma > fs THEN fs ELSE current_ma
    IN  IF channel >= LTC2662_NUM_CHANNELS THEN {0}
        ELSE IF fs <= 0 THEN {0}
        ELSE {(2 * ma * dev.max_code + fs) \div (2 * fs), GarbageCode}

\* LTC2662::set_current_ma, for one of the values current_ma_to_code yields
set_current_ma(dev, channel, code) ==
    IF channel >= LTC2662_NUM_CHANNELS THEN Op(dev, <<>>)
    ELSE write_and_update(dev, channel, code)

-----------------------------------------------------------------------------
(* CalStorage *)

\* bytes of reserved[] that the model's record image carries
ReservedModelled == 2

\* what an erased flash cell reads as: a byte, a character, a 16-bit and a
\* 32-bit field, a float
ERASED_BYTE == 255
ERASED_CHAR == "0xFF"
ERASED_U16 == 65535
ERASED_U32 == <<ERASED_U16, ERASED_U16>>
ERASED_FLOAT == 65535

Printable ==
    <<" ", "!", "DQUOTE", "#", "$", "%", "&", "'", "(", ")", "*", "+", ",", "-",
      ".", "/", "0", "1", "2", "3", "4", "5", "6", "7", "8", "9", ":", ";",
      "<", "=", ">", "?", "@", "A", "B", "C", "D", "E", "F", "G", "H", "I",
      "J", "K", "L", "M", "N", "O", "P", "Q", "R", "S", "T", "U", "V", "W",
      "X", "Y", "Z", "[", "BACKSLASH", "]", "^", "_", "BACKTICK", "a", "b", "c", "d", "e",
      "f", "g", "h", "i", "j", "k", "l", "m", "n", "o", "p", "q", "r", "s",
      "t", "u", "v", "w", "x", "y", "z", "{", "|", "}", "~">>

\* the byte a character is stored as
ord(c) ==
    IF c = NUL THEN 0
    ELSE IF c = ERASED_CHAR THEN ERASED_BYTE
    ELSE 31 + (CHOOSE i \in 1 .. Len(Printable) : Printable[i] = c)

\* strncpy(dst, src, SERIAL_NUMBER_MAX_LEN - 1); dst[last] = NUL
CopySerial(sn) ==
    IF Len(sn) > SERIAL_NUMBER_MAX_LEN - 1
    THEN SubSeq(sn, 1, SERIAL_NUMBER_MAX_LEN - 1) ELSE sn

\* bytes of a serial-number field: the characters and the terminator
SerialBytes(sn) == [i \in 1 .. Len(sn) |-> ord(sn[i])] \o <<0>>

\* bytes of a float field: the fixed-point value as a 16-bit little-endian
FloatBytes(f) == <<f % 256, (f \div 256) % 256>>

\* bytes of one ChannelCalData
ChannelBytes(ch) == FloatBytes(ch.gain) \o FloatBytes(ch.offset) \o <<ch.enabled>>

RECURSIVE ConcatChannels(_, _)
ConcatChannels(chs, k) ==
    IF k >= MAX_CHANNELS_PER_DAC THEN <<>>
    ELSE ChannelBytes(chs[k]) \o ConcatChannels(chs, k + 1)

RECURSIVE ConcatDacs(_, _)
ConcatDacs(ds, k) ==
    IF k >= DACS_PER_BOARD THEN <<>>
    ELSE ConcatChannels(ds[k], 0) \o ConcatDacs(ds, k + 1)

RECURSIVE ConcatBoards(_, _, _)
ConcatBoards(bs, k, n) ==
    IF k >= n THEN <<>>
    ELSE ConcatDacs(bs[k], 0) \o ConcatBoards(bs, k + 1, n)

RECURSIVE ConcatSerials(_, _, _)
ConcatSerials(sns, k, n) ==
    IF k >= n THEN <<>>
    ELSE SerialBytes(sns[k]) \o ConcatSerials(sns, k + 1, n)

\* the bytes of a FlashCalibrationData from serial_numbers to its end: the
\* range the checksum covers
PayloadBytes(img) ==
    LET n == Cardinality(DOMAIN img.serial_numbers)
    IN  ConcatSerials(img.serial_numbers, 0, n)
        \o ConcatBoards(img.channels, 0, n)
        \o [i \in 1 .. ReservedModelled |-> ERASED_BYTE]

\* a ^ b on n-bit values
RECURSIVE Xor(_, _, _)
Xor(a, b, n) ==
    IF n = 0 THEN 0
    ELSE ((a + b) % 2) + 2 * Xor(a \div 2, b \div 2, n - 1)

\* v ^ k for a power of two k
FlipBit(v, k) == IF (v \div k) % 2 = 1 THEN v - k ELSE v + k

\* v ^ 0x1021
Xor1021(v) == FlipBit(FlipBit(FlipBit(v, 1), 32), 4096)

\* the inner loop of calculate_crc16: j shifts of the register
RECURSIVE CrcBits(_, _)
CrcBits(crc, j) ==
    IF j = 0 THEN crc
    ELSE CrcBits(IF crc >= 32768 THEN Xor1021((crc * 2) % 65536)
                                 ELSE (crc * 2) % 65536, j - 1)

\* the outer loop of calculate_crc16 over data[lo .. hi], the range halved
\* so that the evaluation stays shallow
RECURSIVE CrcRange(_, _, _, _)
CrcRange(data, lo, hi, crc) ==
    IF crc < 0 \/ lo > hi THEN crc
    ELSE IF lo = hi
    THEN CrcBits(Xor(crc \div 256, data[lo], 8) * 256 + (crc % 256), 8)
    ELSE LET mid == (lo + hi) \div 2
             left == CrcRange(data, lo, mid, crc)
         IN  IF left >= 0 THEN CrcRange(data, mid + 1, hi, left) ELSE 0

\* CalStorage::calculate_crc16
calculate_crc16(data) == CrcRange(data, 1, Len(data), 65535)

\* the sector after flash_range_erase, read as a FlashCalibrationData
ErasedImage(n) ==
    [magic |-> ERASED_U32, version |-> ERASED_U16, checksum |-> ERASED_U16,
     serial_numbers |->
        [b \in 0 .. (n - 1) |->
            [i \in 1 .. (SERIAL_NUMBER_MAX_LEN - 1) |-> ERASED_CHAR]],
     channels |->
        [b \in 0 .. (n - 1) |-> [d \in Dacs |-> [ch \in Channels |->
            [gain |-> ERASED_FLOAT, offset |-> ERASED_FLOAT,
             enabled |-> ERASED_BYTE]]]]]

\* CalStorage::has_valid_data
has_valid_data(img) ==
    IF img.magic # CAL_MAGIC THEN FALSE
    ELSE IF img.version # CAL_VERSION THEN FALSE
    ELSE calculate_crc16(PayloadBytes(img)) = img.checksum

\* a record built without the channels' enabled flags
BuildRecord_DropsEnabled(sns, cal) ==
    LET body == [serial_numbers |-> [b \in DOMAIN sns |-> CopySerial(sns[b])],
                 channels |->
                    [b \in DOMAIN cal |-> [d \in Dacs |-> [ch \in Channels |->
                        [gain |-> cal[b][d][ch].gain,
                         offset |-> cal[b][d][ch].offset,
                         enabled |-> 0]]]]]
    IN  [magic |-> CAL_MAGIC, version |-> CAL_VERSION,
         checksum |-> calculate_crc16(PayloadBytes(body)),
         serial_numbers |-> body.serial_numbers,
         channels |-> body.channels]

\* the cal_data that save_to_flash builds from the manager's state
BuildRecord(sns, cal) ==
    LET body == [serial_numbers |-> [b \in DOMAIN sns |-> CopySerial(sns[b])],
                 channels |->
                    [b \in DOMAIN cal |-> [d \in Dacs |-> [ch \in Channels |->
                        [gain |-> cal[b][d][ch].gain,
                         offset |-> cal[b][d][ch].offset,
                         enabled |-> IF cal[b][d][ch].enabled THEN 1 ELSE 0]]]]]
    IN  [magic |-> CAL_MAGIC, version |-> CAL_VERSION,
         checksum |-> calculate_crc16(PayloadBytes(body)),
         serial_numbers |-> body.serial_numbers,
         channels |-> body.channels]

\* the serial numbers load_from_flash stores through set_serial_number
LoadedSerials(img) == [b \in DOMAIN img.serial_numbers |->
                          CopySerial(img.serial_numbers[b])]

\* the calibration load_from_flash stores through set_cal_gain/offset/enable
LoadedCalibration(img) ==
    [b \in DOMAIN img.channels |-> [d \in Dacs |-> [ch \in Channels |->
        [gain |-> img.channels[b][d][ch].gain,
         offset |-> img.channels[b][d][ch].offset,
         enabled |-> img.channels[b][d][ch].enabled # 0]]]]

\* load_from_flash copying the record into the manager before it has been
\* validated
load_from_flash_CopyFirst(o) ==
    [ok |-> has_valid_data(o.flash),
     o |-> [o EXCEPT !.serial_numbers_ = LoadedSerials(o.flash),
                     !.calibration_ = LoadedCalibration(o.flash)]]

\* CalStorage::load_from_flash(manager): [ok |-> what it returns,
\* o |-> the manager afterwards]
load_from_flash(o) ==
    IF ~has_valid_data(o.flash) THEN [ok |-> FALSE, o |-> o]
    ELSE [ok |-> TRUE,
          o |-> [o EXCEPT !.serial_numbers_ = LoadedSerials(o.flash),
                          !.calibration_ = LoadedCalibration(o.flash)]]

-----------------------------------------------------------------------------
(* SpiManager and IoExpander *)

\* the fault inputs with nothing asserted: FAULT line high, every expander
\* input high (the inputs are active-low)
IdlePins == [line |-> TRUE, exp1 |-> 65535, exp2_a |-> 255]

\* no call of read_faults in the step
NotRead == -1

\* one thing done on the bus or on the select lines
Event(op, addr, board, device, bytes) ==
    [op |-> op, addr |-> addr, board |-> board, device |-> device,
     bytes |-> bytes]

\* (n >> k) & 1
BitOf(n, k) == (n \div (2 ^ k)) % 2

\* MCP23S17::write_opcode
write_opcode(hw_addr) == OPCODE_BASE + (hw_addr % 8) * 2

\* IoExpander::write_register: the three bytes it clocks out on the bus with
\* the chip select of the expanders low
write_register(hw_addr, reg, value) == <<write_opcode(hw_addr), reg, value>>

\* the port A value of set_dac_select for the decoder address dac_index.
\* set_dac_select leaving the decoder tree disabled
SelectPort_NoEnable(dac_index) ==
    IF software_tree
    THEN BitOf(dac_index, 0) * 16 + BitOf(dac_index, 1) * 8
         + BitOf(dac_index, 2) * 4 + BitOf(dac_index, 3) * 2
         + BitOf(dac_index, 4)
    ELSE (dac_index % 32) + 64 + 128

\* src/software/src/io_expander.cpp puts address bit k on pin 4 - k and D_EN
\* on pin 5; src/io_expander.cpp puts address bit k on pin k, D_EN on pin 5
\* and keeps LDAC (pin 6) and CLR (pin 7) high
SelectPort(dac_index) ==
    IF software_tree
    THEN BitOf(dac_index, 0) * 16 + BitOf(dac_index, 1) * 8
         + BitOf(dac_index, 2) * 4 + BitOf(dac_index, 3) * 2
         + BitOf(dac_index, 4) + 32
    ELSE (dac_index % 32) + 32 + 64 + 128

\* the port A value of deselect_dac
DeselectPort == IF software_tree THEN 0 ELSE 64 + 128

\* IoExpander::set_dac_select: the five address bits of the decoder tree carry
\* board_id * 3 + device_id and D_EN enables the tree once the register
\* write has been clocked out
set_dac_select(board_id, device_id) ==
    <<Event("select", (board_id * 3 + device_id) % 32, -1, -1,
            write_register(EXPANDER_0, REG_GPIOA,
                           SelectPort((board_id * 3 + device_id) % 256)))>>

\* IoExpander::deselect_dac: D_EN goes low once the register write has been
\* clocked out
deselect_dac ==
    <<Event("deselect", -1, -1, -1,
            write_register(EXPANDER_0, REG_GPIOA, DeselectPort))>>

\* SpiManager::select_downstream.  In the single-board build the call of
\* deselect() at its head finds no device selected (every transaction ends
\* with deselect), then the chip-select pin of the device goes low; a
\* device_id without a pin returns before any pin moves
select_downstream(board_id, device_id) ==
    IF single_board_mode
    THEN IF device_id \in 0 .. 2
         THEN <<Event("select", device_id, -1, -1, <<>>)>>
         ELSE <<>>
    ELSE set_dac_select(board_id, device_id)

\* SpiManager::deselect after a transfer
deselect(device_id) ==
    IF single_board_mode
    THEN IF device_id \in 0 .. 2
         THEN <<Event("deselect", -1, -1, -1, <<>>)>>
         ELSE <<>>
    ELSE deselect_dac

\* a variant of transaction that releases the device before it clocks the
\* bytes out
transaction_ReleasesFirst(f) ==
    select_downstream(f.board, f.device)
        \o deselect(f.device)
        \o <<Event("transfer", -1, f.board, f.device, f.bytes)>>

\* SpiManager::transaction for one frame
transaction(f) ==
    select_downstream(f.board, f.device)
        \o <<Event("transfer", -1, f.board, f.device, f.bytes)>>
        \o deselect(f.device)

\* the transactions of the frames of one device operation, in order
RECURSIVE Transactions(_)
Transactions(fs) ==
    IF fs = <<>> THEN <<>>
    ELSE transaction(Head(fs)) \o Transactions(Tail(fs))

\* v & ~(1 << k) and v | (1 << k)
ClearBit(v, k) == v - BitOf(v, k) * (2 ^ k)
SetBit(v, k) == v + (1 - BitOf(v, k)) * (2 ^ k)

\* the port of expander 0 (0 = A, 1 = B) and the pin of it that carry LDAC
\* and CLR: src/software/src/io_expander.cpp has them on port B, LDAC on
\* pin 0 and CLR on pin 7; src/io_expander.cpp on port A, pins 6 and 7
CtrlPort == IF software_tree THEN 1 ELSE 0
LdacPin == IF software_tree THEN 0 ELSE LDAC_BIT
ClrPin == CLR_BIT

\* the byte of a port in a 16-bit word (port A low, port B high), and the
\* word with that byte replaced
PortOf(word, port) == (word \div (256 ^ port)) % 256
WithPort(word, port, value) ==
    IF port = 0 THEN (word \div 256) * 256 + value
    ELSE value * 256 + (word % 256)

\* SpiManager after init(): the chip-select and CLR pins high and nothing
\* selected in the single-board build; IoExpander::init leaves the outputs
\* of expander 0 and its cache at 0 in src/io_expander.cpp, at LDAC and CLR
\* high on port B in src/software/src/io_expander.cpp
SpiInit ==
    [current_selected_dac_ |-> NONE_SELECTED,
     cs |-> [d \in 0 .. 2 |-> TRUE],
     clr |-> TRUE,
     expander_cache_ |->
        IF single_board_mode \/ ~software_tree THEN 0
        ELSE WithPort(0, 1, SetBit(SetBit(0, LdacPin), ClrPin)),
     olat |->
        IF single_board_mode \/ ~software_tree THEN 0
        ELSE WithPort(0, 1, SetBit(SetBit(0, LdacPin), ClrPin))]

\* write_register to a port of expander 0 followed by the update of the
\* cache
WritePort(s, port, value) ==
    [s EXCEPT !.olat = WithPort(s.olat, port, value),
              !.expander_cache_ = WithPort(s.expander_cache_, port, value)]

\* deselect that leaves the pin of the selected device low
deselect_pins_KeepsLow(s) ==
    IF single_board_mode
    THEN [s EXCEPT !.current_selected_dac_ = NONE_SELECTED]
    ELSE WritePort(s, 0, DeselectPort)

\* SpiManager::deselect, on the pins and the members
deselect_pins(s) ==
    IF single_board_mode
    THEN IF s.current_selected_dac_ < 3
         THEN [s EXCEPT !.cs[s.current_selected_dac_] = TRUE,
                        !.current_selected_dac_ = NONE_SELECTED]
         ELSE s
    ELSE WritePort(s, 0, DeselectPort)

\* SpiManager::select_downstream, on the pins and the members
select_downstream_pins(s, board_id, device_id) ==
    IF single_board_mode
    THEN IF device_id \in 0 .. 2
         THEN [deselect_pins(s) EXCEPT !.cs[device_id] = FALSE,
                                       !.current_selected_dac_ = device_id]
         ELSE deselect_pins(s)
    ELSE WritePort(s, 0, SelectPort((board_id * 3 + device_id) % 256))

\* transaction returning with the device still selected
transaction_pins_NoDeselect(s, f) ==
    select_downstream_pins(s, f.board, f.device)

\* SpiManager::transaction, on the pins and the members
transaction_pins(s, f) ==
    deselect_pins(select_downstream_pins(s, f.board, f.device))

RECURSIVE TransactionsPins(_, _)
TransactionsPins(s, fs) ==
    IF fs = <<>> THEN s
    ELSE TransactionsPins(transaction_pins(s, Head(fs)), Tail(fs))

\* pulse_ldac that does not write the port back
io_pulse_ldac_NoRestore(cache) ==
    <<Event("ldac_low", -1, -1, -1,
            write_register(EXPANDER_0, REG_GPIOA + CtrlPort,
                           ClearBit(PortOf(cache, CtrlPort), LdacPin))),
      Event("ldac_high", -1, -1, -1,
            write_register(EXPANDER_0, REG_GPIOA + CtrlPort,
                           ClearBit(PortOf(cache, CtrlPort), LdacPin)))>>

\* IoExpander::pulse_ldac: the port that carries LDAC is written with the
\* cached value and the LDAC pin cleared, then with the cached value
io_pulse_ldac(cache) ==
    <<Event("ldac_low", -1, -1, -1,
            write_register(EXPANDER_0, REG_GPIOA + CtrlPort,
                           ClearBit(PortOf(cache, CtrlPort), LdacPin))),
      Event("ldac_high", -1, -1, -1,
            write_register(EXPANDER_0, REG_GPIOA + CtrlPort,
                           PortOf(cache, CtrlPort)))>>

\* the output latches of expander 0 after the register writes of a log
RECURSIVE Latched(_, _)
Latched(olat, log) ==
    IF log = <<>> THEN olat
    ELSE Latched(IF Len(Head(log).bytes) = 3
                    /\ Head(log).bytes[1] = write_opcode(EXPANDER_0)
                    /\ Head(log).bytes[2] \in {REG_GPIOA, REG_GPIOB}
                 THEN WithPort(olat, Head(log).bytes[2] - REG_GPIOA,
                               Head(log).bytes[3])
                 ELSE olat,
                 Tail(log))

\* SpiManager::pulse_ldac, on the pins and the members: the cache is not
\* written
pulse_ldac_pins(s) ==
    IF single_board_mode THEN s
    ELSE [s EXCEPT !.olat = Latched(s.olat, io_pulse_ldac(s.expander_cache_))]

\* SpiManager::assert_clear and what it puts on the bus
assert_clear_pins(s) ==
    IF single_board_mode THEN [s EXCEPT !.clr = FALSE]
    ELSE WritePort(s, CtrlPort,
                   ClearBit(PortOf(s.expander_cache_, CtrlPort), ClrPin))

assert_clear(s) ==
    IF single_board_mode THEN <<Event("clr_low", -1, -1, -1, <<>>)>>
    ELSE <<Event("clr_low", -1, -1, -1,
                 write_register(EXPANDER_0, REG_GPIOA + CtrlPort,
                     ClearBit(PortOf(s.expander_cache_, CtrlPort), ClrPin)))>>

\* SpiManager::release_clear and what it puts on the bus
release_clear_pins(s) ==
    IF single_board_mode THEN [s EXCEPT !.clr = TRUE]
    ELSE WritePort(s, CtrlPort,
                   SetBit(PortOf(s.expander_cache_, CtrlPort), ClrPin))

release_clear(s) ==
    IF single_board_mode THEN <<Event("clr_high", -1, -1, -1, <<>>)>>
    ELSE <<Event("clr_high", -1, -1, -1,
                 write_register(EXPANDER_0, REG_GPIOA + CtrlPort,
                     SetBit(PortOf(s.expander_cache_, CtrlPort), ClrPin)))>>

\* the loop of read_faults in src/software/src/io_expander.cpp from board on:
\* the inverted inputs of board b go to the bits 3b, 3b+1 and 3b+2
RECURSIVE RemapFrom(_, _, _)
RemapFrom(exp1, exp2_a, board) ==
    IF board >= 8 THEN 0
    ELSE (1 - BitOf(exp1, board * 2)) * (2 ^ (board * 3))
         + (1 - BitOf(exp1, board * 2 + 1)) * (2 ^ (board * 3 + 1))
         + (1 - BitOf(exp2_a, board)) * (2 ^ (board * 3 + 2))
         + RemapFrom(exp1, exp2_a, board + 1)

\* read_faults of src/io_expander.cpp: ~(exp1 | exp2_a << 16) & 0x00FFFFFF
InvertedFaults(exp1, exp2_a) == ((2 ^ 24) - 1) - (exp1 + exp2_a * (2 ^ 16))

\* IoExpander::read_faults of the build, on the inputs as the expanders
\* return them
read_faults(pins) ==
    IF software_tree THEN RemapFrom(pins.exp1, pins.exp2_a, 0)
    ELSE InvertedFaults(pins.exp1, pins.exp2_a)

\* SpiManager::is_fault_active: the FAULT line is active-low
is_fault_active(pins) == ~pins.line

-----------------------------------------------------------------------------
(* BoardManager *)

\* ChannelCalibration's default member initialisers
DefaultCalibration == [gain |-> 1000, offset |-> 0, enabled |-> FALSE]

NoSave == [valid |-> FALSE]

\* what one step leaves behind: the state the step started in, with the
\* per-step outputs cleared
Keep(l, c) ==
    [pc |-> pc, line |-> l, cmd |-> c, response |-> "",
     dacs |-> dacs, resolution_ |-> resolution_,
     serial_numbers_ |-> serial_numbers_, calibration_ |-> calibration_,
     flash |-> flash, frames |-> <<>>, ldac_pulses |-> 0, bus |-> <<>>,
     newlines |-> 0, fault_pins |-> IdlePins, faults |-> NotRead,
     oob |-> FALSE, spi_ |-> spi_,
     saved |-> saved]

Commit(o) ==
    /\ pc' = o.pc
    /\ line' = o.line
    /\ cmd' = o.cmd
    /\ response' = o.response
    /\ dacs' = o.dacs
    /\ resolution_' = o.resolution_
    /\ serial_numbers_' = o.serial_numbers_
    /\ calibration_' = o.calibration_
    /\ flash' = o.flash
    /\ frames' = o.frames
    /\ ldac_pulses' = o.ldac_pulses
    /\ bus' = o.bus
    /\ newlines' = o.newlines
    /\ fault_pins' = o.fault_pins
    /\ faults' = o.faults
    /\ oob' = o.oob
    /\ spi_' = o.spi_
    /\ saved' = o.saved
    /\ UNCHANGED <<single_board_mode, software_tree>>

Answer(o, text) == [o EXCEPT !.response = text]

\* a read past the end of one of the per-board pointer arrays: undefined
\* behaviour.  Either the word read is zero and the handler takes its null
\* branch, or it is not and the call through it leaves the program (wild).
Undefined(o, wild) ==
    IF wild THEN [o EXCEPT !.pc = "ub", !.response = "<undefined>"]
    ELSE Answer(o, "ERROR:DAC not initialized")

\* current_dacs_[board] or voltage_dacs_[board] read with a board index at or
\* beyond NUM_BOARDS
OutOfBounds(o, wild) == [Undefined(o, wild) EXCEPT !.oob = TRUE]

\* BoardManager::get_dac(board, dac) != nullptr
get_dac(o, board, dac) ==
    IF board >= NUM_BOARDS \/ dac >= DACS_PER_BOARD THEN FALSE
    ELSE o.dacs[board][dac].ptr

\* the effect of calling a device operation through the device pointer
Apply(o, board, dac, r) ==
    [o EXCEPT !.dacs[board][dac] = r.dev, !.frames = o.frames \o r.out,
              !.bus = o.bus \o Transactions(r.out),
              !.spi_ = TransactionsPins(o.spi_, r.out)]

\* SpiManager::pulse_ldac: the single-board build has no latch line
pulse_ldac(o) ==
    IF single_board_mode THEN o
    ELSE [o EXCEPT !.ldac_pulses = o.ldac_pulses + 1,
                   !.bus = o.bus \o io_pulse_ldac(o.spi_.expander_cache_),
                   !.spi_ = pulse_ldac_pins(o.spi_)]

\* the loop body of init_all for boards k .. NUM_BOARDS-1
RECURSIVE InitBoards(_, _)
InitBoards(o, k) ==
    IF k >= NUM_BOARDS THEN o
    ELSE LET s0 == [setup(o.dacs[k][0], k, 0, o.resolution_[k][0])
                        EXCEPT !.ptr = TRUE]
             s1 == [setup(o.dacs[k][1], k, 1, o.resolution_[k][1])
                        EXCEPT !.ptr = TRUE]
             s2 == [setup(o.dacs[k][2], k, 2, o.resolution_[k][2])
                        EXCEPT !.ptr = TRUE]
             o0 == Apply(o, k, 0, init(s0))
             o1 == Apply(o0, k, 1, init(s1))
             o2 == Apply(o1, k, 2, init(s2))
         IN  InitBoards(o2, k + 1)

\* BoardManager::init_all
init_all(o) == load_from_flash(InitBoards(o, 0)).o

\* the power-down loop of reset_all for boards k .. NUM_BOARDS-1
RECURSIVE PowerDownBoards(_, _)
PowerDownBoards(o, k) ==
    IF k >= NUM_BOARDS THEN o
    ELSE LET o0 == IF o.dacs[k][0].ptr
                   THEN Apply(o, k, 0, power_down_chip(o.dacs[k][0])) ELSE o
             o1 == IF o0.dacs[k][1].ptr
                   THEN Apply(o0, k, 1, power_down_chip(o0.dacs[k][1])) ELSE o0
             o2 == IF o1.dacs[k][2].ptr
                   THEN Apply(o1, k, 2, power_down_chip(o1.dacs[k][2])) ELSE o1
         IN  PowerDownBoards(o2, k + 1)

\* reset_all re-initializing the devices before it powers them down
reset_all_InitFirst(o) == PowerDownBoards(init_all(o), 0)

\* BoardManager::reset_all
reset_all(o) == init_all(PowerDownBoards(o, 0))

\* BoardManager::execute, an invalid command
execute_invalid(o) == Answer(o, "ERROR:" \o o.cmd.error_msg)

\* BoardManager::execute, case RST
execute_rst(o) == Answer(reset_all(o), "OK")

\* BoardManager::execute_idn
execute_idn(o) == Answer(o, "GreyMatter,DAC Controller,001,0.1")

\* execute_set_voltage that hands the value of the command to the device as
\* it came
execute_set_voltage_Uncalibrated(o, wild) ==
    LET c == o.cmd
        voltage == c.float_value
        dev == o.dacs[c.board_id][c.dac_id]
    IN  IF c.board_id < 0 \/ c.dac_id < 0 \/ c.channel_id < 0
        THEN Answer(o, "ERROR:Missing address")
        ELSE IF c.dac_id # 2 THEN Answer(o, "ERROR:Use CURR for current DACs")
        ELSE IF c.board_id >= NUM_BOARDS THEN OutOfBounds(o, wild)
        ELSE IF ~dev.ptr THEN Answer(o, "ERROR:DAC not initialized")
        ELSE IF c.channel_id >= get_num_channels(dev)
        THEN Answer(o, "ERROR:Invalid channel")
        ELSE Answer(Apply(o, c.board_id, c.dac_id,
                          set_voltage(dev, c.channel_id, voltage)), "OK")

\* BoardManager::execute_set_voltage
execute_set_voltage(o, wild) ==
    LET c == o.cmd
        cal == o.calibration_[c.board_id][c.dac_id][c.channel_id]
        voltage == IF cal.enabled
                   THEN (c.float_value * cal.gain) \div 1000 + cal.offset
                   ELSE c.float_value
        dev == o.dacs[c.board_id][c.dac_id]
    IN  IF c.board_id < 0 \/ c.dac_id < 0 \/ c.channel_id < 0
        THEN Answer(o, "ERROR:Missing address")
        ELSE IF c.dac_id # 2 THEN Answer(o, "ERROR:Use CURR for current DACs")
        ELSE IF c.board_id >= NUM_BOARDS THEN OutOfBounds(o, wild)
        ELSE IF ~dev.ptr THEN Answer(o, "ERROR:DAC not initialized")
        ELSE IF c.channel_id >= get_num_channels(dev)
        THEN Answer(o, "ERROR:Invalid channel")
        ELSE Answer(Apply(o, c.board_id, c.dac_id,
                          set_voltage(dev, c.channel_id, voltage)), "OK")

\* execute_set_current without the test of the device kind
execute_set_current_AnyKind(o, code, wild) ==
    LET c == o.cmd
        dev == o.dacs[c.board_id][c.dac_id]
    IN  IF c.board_id < 0 \/ c.dac_id < 0 \/ c.channel_id < 0
        THEN Answer(o, "ERROR:Missing address")
        ELSE IF c.board_id >= NUM_BOARDS THEN OutOfBounds(o, wild)
        ELSE IF ~dev.ptr THEN Answer(o, "ERROR:DAC not initialized")
        ELSE IF c.channel_id >= get_num_channels(dev)
        THEN Answer(o, "ERROR:Invalid channel")
        ELSE Answer(Apply(o, c.board_id, c.dac_id,
                          set_current_ma(dev, c.channel_id, code)), "OK")

\* BoardManager::execute_set_current, for the code current_ma_to_code yields
execute_set_current(o, code, wild) ==
    LET c == o.cmd
        dev == o.dacs[c.board_id][c.dac_id]
    IN  IF c.board_id < 0 \/ c.dac_id < 0 \/ c.channel_id < 0
        THEN Answer(o, "ERROR:Missing address")
        ELSE IF c.dac_id = 2 THEN Answer(o, "ERROR:Use VOLT for voltage DACs")
        ELSE IF c.board_id >= NUM_BOARDS THEN OutOfBounds(o, wild)
        ELSE IF ~dev.ptr THEN Answer(o, "ERROR:DAC not initialized")
        ELSE IF c.channel_id >= get_num_channels(dev)
        THEN Answer(o, "ERROR:Invalid channel")
        ELSE Answer(Apply(o, c.board_id, c.dac_id,
                          set_current_ma(dev, c.channel_id, code)), "OK")

\* the current handed to set_current_ma, calibration applied
CalibratedCurrent(o) ==
    LET c == o.cmd
        cal == o.calibration_[c.board_id][c.dac_id][c.channel_id]
    IN  IF cal.enabled THEN (c.float_value * cal.gain) \div 1000 + cal.offset
        ELSE c.float_value

\* the codes current_ma_to_code can yield for the command, {0} when the
\* handler returns before the conversion
CurrentCodes(o) ==
    LET c == o.cmd
    IN  IF \/ c.board_id < 0 \/ c.dac_id < 0 \/ c.channel_id < 0
           \/ c.dac_id = 2 \/ c.board_id >= NUM_BOARDS
           \/ ~o.dacs[c.board_id][c.dac_id].ptr
           \/ c.channel_id >= get_num_channels(o.dacs[c.board_id][c.dac_id])
        THEN {0}
        ELSE current_ma_to_code(o.dacs[c.board_id][c.dac_id], c.channel_id,
                                CalibratedCurrent(o))

\* execute_set_code without the comparison against the device's max code
execute_set_code_NoCeiling(o) ==
    LET c == o.cmd
        dev == o.dacs[c.board_id][c.dac_id]
    IN  IF c.board_id < 0 \/ c.dac_id < 0 \/ c.channel_id < 0
        THEN Answer(o, "ERROR:Missing address")
        ELSE IF ~get_dac(o, c.board_id, c.dac_id)
        THEN Answer(o, "ERROR:DAC not initialized")
        ELSE IF c.channel_id >= get_num_channels(dev)
        THEN Answer(o, "ERROR:Invalid channel")
        ELSE Answer(Apply(o, c.board_id, c.dac_id,
                          write_and_update(dev, c.channel_id, c.int_value)),
                    "OK")

\* BoardManager::execute_set_code
execute_set_code(o) ==
    LET c == o.cmd
        dev == o.dacs[c.board_id][c.dac_id]
    IN  IF c.board_id < 0 \/ c.dac_id < 0 \/ c.channel_id < 0
        THEN Answer(o, "ERROR:Missing address")
        ELSE IF ~get_dac(o, c.board_id, c.dac_id)
        THEN Answer(o, "ERROR:DAC not initialized")
        ELSE IF c.channel_id >= get_num_channels(dev)
        THEN Answer(o, "ERROR:Invalid channel")
        ELSE IF c.int_value > dev.max_code
        THEN Answer(o, "ERROR:Code exceeds max (" \o ToString(dev.max_code)
                       \o " for " \o ToString(dev.resolution_bits) \o "-bit)")
        ELSE Answer(Apply(o, c.board_id, c.dac_id,
                          write_and_update(dev, c.channel_id, c.int_value)),
                    "OK")

\* the SET_ALL_SPAN loop of execute_set_span for channels ch .. n-1
RECURSIVE SpanChannels(_, _, _, _, _)
SpanChannels(o, board, dac, ch, span_code) ==
    IF ch >= get_num_channels(o.dacs[board][dac]) THEN o
    ELSE SpanChannels(Apply(o, board, dac,
                            set_span(o.dacs[board][dac], ch, span_code)),
                      board, dac, ch + 1, span_code)

\* execute_set_span writing the span to channel 0 before it finds the
\* channel missing
execute_set_span_WritesFirst(o) ==
    LET c == o.cmd
    IN  IF c.board_id < 0 \/ c.dac_id < 0
        THEN Answer(o, "ERROR:Missing address")
        ELSE IF ~get_dac(o, c.board_id, c.dac_id)
        THEN Answer(o, "ERROR:DAC not initialized")
        ELSE IF c.type = "SET_ALL_SPAN"
        THEN Answer(SpanChannels(o, c.board_id, c.dac_id, 0,
                                 c.int_value % 256), "OK")
        ELSE IF c.channel_id < 0
        THEN Answer(Apply(o, c.board_id, c.dac_id,
                          set_span(o.dacs[c.board_id][c.dac_id], 0,
                                   c.int_value % 256)),
                    "ERROR:Missing channel")
        ELSE Answer(Apply(o, c.board_id, c.dac_id,
                          set_span(o.dacs[c.board_id][c.dac_id], c.channel_id,
                                   c.int_value % 256)), "OK")

\* BoardManager::execute_set_span
execute_set_span(o) ==
    LET c == o.cmd
    IN  IF c.board_id < 0 \/ c.dac_id < 0
        THEN Answer(o, "ERROR:Missing address")
        ELSE IF ~get_dac(o, c.board_id, c.dac_id)
        THEN Answer(o, "ERROR:DAC not initialized")
        ELSE IF c.type = "SET_ALL_SPAN"
        THEN Answer(SpanChannels(o, c.board_id, c.dac_id, 0,
                                 c.int_value % 256), "OK")
        ELSE IF c.channel_id < 0 THEN Answer(o, "ERROR:Missing channel")
        ELSE Answer(Apply(o, c.board_id, c.dac_id,
                          set_span(o.dacs[c.board_id][c.dac_id], c.channel_id,
                                   c.int_value % 256)), "OK")

\* the UPDATE_ALL loop of execute_update for boards k .. NUM_BOARDS-1
RECURSIVE UpdateBoards(_, _)
UpdateBoards(o, k) ==
    IF k >= NUM_BOARDS THEN o
    ELSE LET o0 == IF o.dacs[k][0].ptr
                   THEN Apply(o, k, 0, update_all(o.dacs[k][0])) ELSE o
             o1 == IF o0.dacs[k][1].ptr
                   THEN Apply(o0, k, 1, update_all(o0.dacs[k][1])) ELSE o0
             o2 == IF o1.dacs[k][2].ptr
                   THEN Apply(o1, k, 2, update_all(o1.dacs[k][2])) ELSE o1
         IN  UpdateBoards(o2, k + 1)

\* execute_update that pulses the latch line before it updates the devices
execute_update_LatchesFirst(o) ==
    LET c == o.cmd
    IN  IF c.type = "UPDATE_ALL"
        THEN Answer(UpdateBoards(pulse_ldac(o), 0), "OK")
        ELSE IF c.board_id < 0 \/ c.dac_id < 0
        THEN Answer(o, "ERROR:Missing address")
        ELSE IF ~get_dac(o, c.board_id, c.dac_id)
        THEN Answer(o, "ERROR:DAC not initialized")
        ELSE Answer(Apply(o, c.board_id, c.dac_id,
                          update_all(o.dacs[c.board_id][c.dac_id])), "OK")

\* BoardManager::execute_update
execute_update(o) ==
    LET c == o.cmd
    IN  IF c.type = "UPDATE_ALL"
        THEN Answer(pulse_ldac(UpdateBoards(o, 0)), "OK")
        ELSE IF c.board_id < 0 \/ c.dac_id < 0
        THEN Answer(o, "ERROR:Missing address")
        ELSE IF ~get_dac(o, c.board_id, c.dac_id)
        THEN Answer(o, "ERROR:DAC not initialized")
        ELSE Answer(Apply(o, c.board_id, c.dac_id,
                          update_all(o.dacs[c.board_id][c.dac_id])), "OK")

\* BoardManager::execute_power_down
execute_power_down(o) ==
    LET c == o.cmd
        dev == o.dacs[c.board_id][c.dac_id]
    IN  IF c.board_id < 0 \/ c.dac_id < 0
        THEN Answer(o, "ERROR:Missing address")
        ELSE IF ~get_dac(o, c.board_id, c.dac_id)
        THEN Answer(o, "ERROR:DAC not initialized")
        ELSE IF c.type = "POWER_DOWN_CHIP"
        THEN Answer(Apply(o, c.board_id, c.dac_id, power_down_chip(dev)), "OK")
        ELSE IF c.channel_id < 0 THEN Answer(o, "ERROR:Missing channel")
        ELSE Answer(Apply(o, c.board_id, c.dac_id,
                          power_down(dev, c.channel_id)), "OK")

\* BoardManager::execute_get_resolution
execute_get_resolution(o) ==
    LET c == o.cmd
    IN  IF c.board_id < 0 \/ c.dac_id < 0
        THEN Answer(o, "ERROR:Missing address")
        ELSE IF ~get_dac(o, c.board_id, c.dac_id)
        THEN Answer(o, "ERROR:DAC not initialized")
        ELSE Answer(o, ToString(o.dacs[c.board_id][c.dac_id].resolution_bits))

\* execute_set_resolution that sets the device up again and leaves out init()
execute_set_resolution_NoInit(o) ==
    LET c == o.cmd
        new_res == c.int_value % 256
        o1 == [o EXCEPT !.resolution_[c.board_id][c.dac_id] =
                            IF new_res = 12 THEN 12 ELSE 16]
        dev == setup(o.dacs[c.board_id][c.dac_id], c.board_id,
                     IF c.dac_id < 2 THEN c.dac_id ELSE 2, new_res)
    IN  IF c.board_id < 0 \/ c.dac_id < 0
        THEN Answer(o, "ERROR:Missing address")
        ELSE IF c.board_id >= NUM_BOARDS \/ c.dac_id >= DACS_PER_BOARD
        THEN Answer(o, "ERROR:Invalid board/DAC")
        ELSE IF ~dev.ptr THEN Undefined(o1, TRUE)
        ELSE Answer(Apply(o1, c.board_id, c.dac_id, Op(dev, <<>>)), "OK")

\* BoardManager::execute_set_resolution with BoardManager::set_resolution
execute_set_resolution(o) ==
    LET c == o.cmd
        new_res == c.int_value % 256
        o1 == [o EXCEPT !.resolution_[c.board_id][c.dac_id] =
                            IF new_res = 12 THEN 12 ELSE 16]
        dev == setup(o.dacs[c.board_id][c.dac_id], c.board_id,
                     IF c.dac_id < 2 THEN c.dac_id ELSE 2, new_res)
    IN  IF c.board_id < 0 \/ c.dac_id < 0
        THEN Answer(o, "ERROR:Missing address")
        ELSE IF c.board_id >= NUM_BOARDS \/ c.dac_id >= DACS_PER_BOARD
        THEN Answer(o, "ERROR:Invalid board/DAC")
        ELSE IF ~dev.ptr THEN Undefined(o1, TRUE)
        ELSE Answer(Apply(o1, c.board_id, c.dac_id, init(dev)), "OK")

\* BoardManager::set_serial_number
set_serial_number(o, board, serial) ==
    IF board >= NUM_BOARDS THEN o
    ELSE [o EXCEPT !.serial_numbers_[board] = CopySerial(serial)]

\* set_cal_gain writing the gain of every channel of the device
set_cal_gain_AllChannels(o, board, dac, channel, gain) ==
    IF board >= NUM_BOARDS \/ dac >= DACS_PER_BOARD
       \/ channel >= MAX_CHANNELS_PER_DAC THEN o
    ELSE [o EXCEPT !.calibration_[board][dac] =
                      [ch \in Channels |->
                          [o.calibration_[board][dac][ch] EXCEPT !.gain = gain]]]

\* BoardManager::set_cal_gain
set_cal_gain(o, board, dac, channel, gain) ==
    IF board >= NUM_BOARDS \/ dac >= DACS_PER_BOARD
       \/ channel >= MAX_CHANNELS_PER_DAC THEN o
    ELSE [o EXCEPT !.calibration_[board][dac][channel].gain = gain]

\* BoardManager::set_cal_offset
set_cal_offset(o, board, dac, channel, offset) ==
    IF board >= NUM_BOARDS \/ dac >= DACS_PER_BOARD
       \/ channel >= MAX_CHANNELS_PER_DAC THEN o
    ELSE [o EXCEPT !.calibration_[board][dac][channel].offset = offset]

\* BoardManager::set_cal_enable
set_cal_enable(o, board, dac, channel, enable) ==
    IF board >= NUM_BOARDS \/ dac >= DACS_PER_BOARD
       \/ channel >= MAX_CHANNELS_PER_DAC THEN o
    ELSE [o EXCEPT !.calibration_[board][dac][channel].enabled = enable]

\* BoardManager::clear_all_calibration
clear_all_calibration(o) ==
    [o EXCEPT !.serial_numbers_ = [b \in Boards |-> <<>>],
              !.calibration_ = [b \in Boards |-> [d \in Dacs |->
                                   [ch \in Channels |-> DefaultCalibration]]]]

\* the characters of a text as one string
RECURSIVE Joined(_)
Joined(t) == IF t = <<>> THEN "" ELSE Head(t) \o Joined(Tail(t))

\* snprintf("%.6f") of a float
FormatFloat(f) ==
    LET a == IF f < 0 THEN 0 - f ELSE f
        frac == a % 1000
    IN  (IF f < 0 THEN "-" ELSE "") \o ToString(a \div 1000) \o "."
        \o (IF frac < 10 THEN "00" ELSE IF frac < 100 THEN "0" ELSE "")
        \o ToString(frac) \o "000"

\* BoardManager::execute_set_serial
execute_set_serial(o) ==
    LET c == o.cmd
    IN  IF c.board_id < 0 \/ c.board_id >= NUM_BOARDS
        THEN Answer(o, "ERROR:Invalid board")
        ELSE Answer(set_serial_number(o, c.board_id, c.string_value), "OK")

\* BoardManager::execute_get_serial
execute_get_serial(o) ==
    LET c == o.cmd
    IN  IF c.board_id < 0 \/ c.board_id >= NUM_BOARDS
        THEN Answer(o, "ERROR:Invalid board")
        ELSE IF o.serial_numbers_[c.board_id] = <<>>
        THEN Answer(o, "(not set)")
        ELSE Answer(o, Joined(o.serial_numbers_[c.board_id]))

\* the common head of the six execute_*_cal_* handlers: "" when the address
\* names a channel of an initialised device
CalAddressError(o) ==
    LET c == o.cmd
    IN  IF c.board_id < 0 \/ c.dac_id < 0 \/ c.channel_id < 0
        THEN "ERROR:Missing address"
        ELSE IF ~get_dac(o, c.board_id, c.dac_id) THEN "ERROR:Invalid channel"
        ELSE IF c.channel_id >= get_num_channels(o.dacs[c.board_id][c.dac_id])
        THEN "ERROR:Invalid channel"
        ELSE ""

\* BoardManager::execute_set_cal_gain
execute_set_cal_gain(o) ==
    LET c == o.cmd
    IN  IF CalAddressError(o) # "" THEN Answer(o, CalAddressError(o))
        ELSE Answer(set_cal_gain(o, c.board_id, c.dac_id, c.channel_id,
                                 c.float_value), "OK")

\* BoardManager::execute_get_cal_gain
execute_get_cal_gain(o) ==
    LET c == o.cmd
    IN  IF CalAddressError(o) # "" THEN Answer(o, CalAddressError(o))
        ELSE Answer(o, FormatFloat(
                 o.calibration_[c.board_id][c.dac_id][c.channel_id].gain))

\* BoardManager::execute_set_cal_offset
execute_set_cal_offset(o) ==
    LET c == o.cmd
    IN  IF CalAddressError(o) # "" THEN Answer(o, CalAddressError(o))
        ELSE Answer(set_cal_offset(o, c.board_id, c.dac_id, c.channel_id,
                                   c.float_value), "OK")

\* BoardManager::execute_get_cal_offset
execute_get_cal_offset(o) ==
    LET c == o.cmd
    IN  IF CalAddressError(o) # "" THEN Answer(o, CalAddressError(o))
        ELSE Answer(o, FormatFloat(
                 o.calibration_[c.board_id][c.dac_id][c.channel_id].offset))

\* BoardManager::execute_set_cal_enable
execute_set_cal_enable(o) ==
    LET c == o.cmd
    IN  IF CalAddressError(o) # "" THEN Answer(o, CalAddressError(o))
        ELSE Answer(set_cal_enable(o, c.board_id, c.dac_id, c.channel_id,
                                   c.int_value # 0), "OK")

\* BoardManager::execute_get_cal_enable
execute_get_cal_enable(o) ==
    LET c == o.cmd
    IN  IF CalAddressError(o) # "" THEN Answer(o, CalAddressError(o))
        ELSE Answer(o,
                 IF o.calibration_[c.board_id][c.dac_id][c.channel_id].enabled
                 THEN "1" ELSE "0")

\* "%06lX" of a value below 2^24
Hex6(n) ==
    Joined([k \in 1 .. 6 |-> HexDigits[((n \div (16 ^ (6 - k))) % 16) + 1]])

\* the multi-board answer once read_faults has returned
FaultAnswer(o, bitmap) ==
    [o EXCEPT !.faults = bitmap, !.response = "FAULT:0x" \o Hex6(bitmap)]

\* BoardManager::execute_fault_query on the fault inputs pins
execute_fault_query(o, pins) ==
    IF single_board_mode
    THEN IF is_fault_active(pins)
         THEN Answer([o EXCEPT !.fault_pins = pins], "FAULT:ACTIVE")
         ELSE Answer([o EXCEPT !.fault_pins = pins], "OK")
    ELSE IF is_fault_active(pins)
         THEN FaultAnswer([o EXCEPT !.fault_pins = pins], read_faults(pins))
         ELSE Answer([o EXCEPT !.fault_pins = pins], "OK")

\* "  DAC%d:CH%d:G=%.6f,O=%.6f,E=%d" of export_calibration_data, without the
\* "\n" that ends it
CalibrationLine(dac, ch, cal) ==
    "  DAC" \o ToString(dac) \o ":CH" \o ToString(ch)
        \o ":G=" \o FormatFloat(cal.gain) \o ",O=" \o FormatFloat(cal.offset)
        \o ",E=" \o (IF cal.enabled THEN "1" ELSE "0")

\* the two inner loops of export_calibration_data over one board: a line for
\* every channel whose calibration is not the default one
RECURSIVE ExportChannels(_, _, _)
ExportChannels(cal, dac, ch) ==
    IF dac >= DACS_PER_BOARD THEN <<>>
    ELSE IF ch >= (IF dac < 2 THEN LTC2662_NUM_CHANNELS
                   ELSE LTC2664_NUM_CHANNELS)
    THEN ExportChannels(cal, dac + 1, 0)
    ELSE (IF cal[dac][ch].enabled \/ cal[dac][ch].gain # 1000
             \/ cal[dac][ch].offset # 0
          THEN <<CalibrationLine(dac, ch, cal[dac][ch])>> ELSE <<>>)
         \o ExportChannels(cal, dac, ch + 1)

\* the outer loop of export_calibration_data: the "BOARD%d:SN=%s" header of
\* each board, then its channel lines
RECURSIVE ExportBoards(_, _, _)
ExportBoards(serials, cal, board) ==
    IF board >= NUM_BOARDS THEN <<>>
    ELSE <<"BOARD" \o ToString(board) \o ":SN=" \o Joined(serials[board])>>
         \o ExportChannels(cal[board], 0, 0)
         \o ExportBoards(serials, cal, board + 1)

\* BoardManager::export_calibration_data: the pieces it appends to result, each
\* of them ended by "\n" in the text
export_calibration_data(o) == ExportBoards(o.serial_numbers_, o.calibration_, 0)

\* the text of the pieces, "\n" after each
RECURSIVE JoinLines(_)
JoinLines(ls) ==
    IF ls = <<>> THEN "" ELSE Head(ls) \o "\n" \o JoinLines(Tail(ls))

\* the answer made of "\n"-terminated pieces
AnswerLines(o, ls) ==
    [o EXCEPT !.response = JoinLines(ls), !.newlines = Len(ls)]

\* BoardManager::execute_cal_data_query
execute_cal_data_query(o) == AnswerLines(o, export_calibration_data(o))

\* erase_flash that leaves the sector as it is
erase_flash_Skipped(o) == [o EXCEPT !.saved = NoSave]

\* CalStorage::erase_flash
erase_flash(o) == [o EXCEPT !.flash = ErasedImage(NUM_BOARDS), !.saved = NoSave]

\* BoardManager::execute_cal_clear
execute_cal_clear(o) == Answer(erase_flash(clear_all_calibration(o)), "OK")

\* flash_range_program: programmed says whether the flash took the write
flash_range_program(o, rec, programmed) ==
    IF programmed THEN [o EXCEPT !.flash = rec] ELSE o

\* the end of save_to_flash: what has_valid_data said of the sector
SaveVerdict(o, ok) ==
    [ok |-> ok,
     o |-> IF ok
           THEN [o EXCEPT !.saved = [valid |-> TRUE,
                                     serial_numbers |-> o.serial_numbers_,
                                     calibration |-> o.calibration_]]
           ELSE o]

\* the end of save_to_flash: the sector is read back
SaveVerify(o) == SaveVerdict(o, has_valid_data(o.flash))

\* sizeof(FlashCalibrationData), a packed structure
bytes_to_write ==
    HEADER_BYTES + NUM_BOARDS * SERIAL_NUMBER_MAX_LEN
    + NUM_BOARDS * DACS_PER_BOARD * MAX_CHANNELS_PER_DAC * CHANNEL_CAL_BYTES
    + RESERVED_BYTES

\* save_to_flash: the length handed to flash_range_program
write_size ==
    ((bytes_to_write + FLASH_PAGE_SIZE - 1) \div FLASH_PAGE_SIZE)
    * FLASH_PAGE_SIZE

\* save_to_flash programming the sector without erasing it first
save_to_flash_NoErase(o, programmed) ==
    SaveVerify(flash_range_program(
                   o,
                   BuildRecord(o.serial_numbers_, o.calibration_),
                   programmed))

\* CalStorage::save_to_flash: the record is built, the sector erased and
\* programmed, and the result read back
save_to_flash(o, programmed) ==
    SaveVerify(flash_range_program(
                   erase_flash(o),
                   BuildRecord(o.serial_numbers_, o.calibration_),
                   programmed))

\* the answer to what save_to_flash returned
SaveAnswer(r) ==
    Answer(r.o, IF r.ok THEN "OK" ELSE "ERROR:Flash write failed")

\* BoardManager::execute_cal_save
execute_cal_save(o, programmed) == SaveAnswer(save_to_flash(o, programmed))

\* the answer to what load_from_flash returned
LoadAnswer(r) ==
    Answer(r.o, IF r.ok THEN "OK" ELSE "ERROR:No valid calibration data")

\* BoardManager::execute_cal_load
execute_cal_load(o) == LoadAnswer(load_from_flash(o))

-----------------------------------------------------------------------------
(* Input lines *)

DigitChars == <<"0", "1", "2", "3", "4", "5", "6", "7", "8", "9">>

\* the decimal digits of a natural number
RECURSIVE Decimal(_)
Decimal(n) ==
    IF n < 10 THEN <<DigitChars[n + 1]>>
    ELSE Decimal(n \div 10) \o <<DigitChars[(n % 10) + 1]>>

BOARD(b) == <<"B", "O", "A", "R", "D">> \o Decimal(b) \o <<":">>
DAC(d) == <<"D", "A", "C">> \o Decimal(d) \o <<":">>
CH(ch) == <<"C", "H">> \o Decimal(ch) \o <<":">>
Addr(b, d, ch) == BOARD(b) \o DAC(d) \o CH(ch)

CODE(v) == <<"C", "O", "D", "E", " ">> \o Decimal(v)
VOLT(t) == <<"V", "O", "L", "T", " ">> \o t
CURR(t) == <<"C", "U", "R", "R", " ">> \o t
PDOWN == <<"P", "D", "O", "W", "N">>
RES(v) == <<"R", "E", "S", " ">> \o Decimal(v)
RESQ == <<"R", "E", "S", "?">>
SPAN(v) == <<"S", "P", "A", "N", " ">> \o Decimal(v)
SPANALL(v) == <<"S", "P", "A", "N", ":", "A", "L", "L", " ">> \o Decimal(v)
UPDATE == <<"U", "P", "D", "A", "T", "E">>
CALGAIN(t) == <<"C", "A", "L", ":", "G", "A", "I", "N", " ">> \o t
CALGAINQ == <<"C", "A", "L", ":", "G", "A", "I", "N", "?">>
CALOFFS(t) == <<"C", "A", "L", ":", "O", "F", "F", "S", " ">> \o t
CALOFFSQ == <<"C", "A", "L", ":", "O", "F", "F", "S", "?">>
CALEN(v) == <<"C", "A", "L", ":", "E", "N", " ">> \o Decimal(v)
CALENQ == <<"C", "A", "L", ":", "E", "N", "?">>
SN(t) == <<"S", "N", " ">> \o t
SNQ == <<"S", "N", "?">>
RST == <<"*", "R", "S", "T">>
IDNQ == <<"*", "I", "D", "N", "?">>
UPDATEALL == <<"U", "P", "D", "A", "T", "E", ":", "A", "L", "L">>
CALSAVE == <<"C", "A", "L", ":", "S", "A", "V", "E">>
CALLOAD == <<"C", "A", "L", ":", "L", "O", "A", "D">>
CALDATAQ == <<"C", "A", "L", ":", "D", "A", "T", "A", "?">>
CALCLEAR == <<"C", "A", "L", ":", "C", "L", "E", "A", "R">>
FAULTQ == <<"F", "A", "U", "L", "T", "?">>

\* lines for the DAC command handlers
CodeLines ==
    {Addr(b, d, ch) \o CODE(v) :
        b \in {0, 7}, d \in {0, 2}, ch \in {0, 4},
        v \in {4095, 4096, 65535, 65536}}
    \cup {Addr(0, 1, 3) \o CODE(v) : v \in {0, 65535, 65536, 70000}}
    \cup {Addr(0, 0, 0) \o CODE(70000)}

OutputLines ==
    {Addr(b, 2, ch) \o VOLT(<<"1", ".", "5">>) : b \in {0, 7}, ch \in {0, 4}}
    \cup {Addr(0, d, 0) \o VOLT(<<"1", ".", "5">>) : d \in {0, 1}}
    \cup {Addr(b, d, 4) \o CURR(<<"1", ".", "5">>) : b \in {0, 7}, d \in {0, 1}}
    \cup {Addr(0, 2, ch) \o CURR(<<"1", ".", "5">>) : ch \in {0, 4}}
    \cup {Addr(0, 2, 0) \o VOLT(<<"a", "b", "c">>)}

DeviceLines ==
    {Addr(0, d, 4) \o PDOWN : d \in {0, 2}}
    \cup {BOARD(b) \o DAC(2) \o PDOWN : b \in {0, 1}}
    \cup {BOARD(0) \o DAC(d) \o RES(v) : d \in {0, 2}, v \in {12, 14, 16}}
    \cup {BOARD(7) \o DAC(1) \o RES(12), BOARD(0) \o DAC(2) \o RESQ,
          BOARD(7) \o DAC(0) \o RESQ}
    \cup {BOARD(0) \o DAC(2) \o SPANALL(4), BOARD(0) \o DAC(2) \o SPAN(3),
          BOARD(1) \o DAC(0) \o SPANALL(1)}
    \cup {BOARD(0) \o DAC(0) \o UPDATE, BOARD(1) \o DAC(0) \o UPDATE,
          UPDATEALL, IDNQ, BOARD(0) \o SNQ, BOARD(7) \o SNQ,
          Addr(1, 2, 4) \o <<"V", "O", "L", "T", "?">>,
          Addr(0, 0, 0) \o <<"C", "U", "R", "R", "?">>}

ChannelCalLines ==
    {Addr(0, 2, ch) \o v :
        ch \in {0, 4},
        v \in {CALGAINQ, CALOFFSQ, CALENQ}}
    \cup {Addr(0, 2, 4) \o v :
            v \in {CALGAIN(<<"2", ".", "0">>), CALOFFS(<<"0", ".", "1">>),
                   CALEN(1)}}

MalformedLines ==
    {<<>>, <<" ">>, <<"F", "O", "O">>,
     BOARD(8) \o DAC(0) \o CH(0) \o CODE(1),
     BOARD(0) \o DAC(3) \o CH(0) \o CODE(1),
     BOARD(0) \o DAC(0) \o CH(5) \o CODE(1),
     <<"B", "O", "A", "R", "D", ":">> \o DAC(0) \o CH(0) \o CODE(1),
     BOARD(12) \o DAC(0) \o CH(0) \o CODE(1),
     Addr(0, 0, 0) \o <<"C", "O", "D", "E", " ", "-", "1">>,
     Addr(0, 0, 0) \o <<"C", "O", "D", "E", " ", "0", "x", "F", "F", "F", "F">>,
     Addr(0, 0, 0) \o <<"C", "O", "D", "E", " ", "0", "x",
                        "1", "0", "0", "0", "0">>,
     BOARD(0) \o DAC(0) \o CODE(5)}

DacLines ==
    CodeLines \cup OutputLines \cup DeviceLines \cup ChannelCalLines
    \cup MalformedLines

\* lines for the calibration store
CalLines ==
    {RST, CALSAVE, CALLOAD, CALCLEAR, CALDATAQ,
     BOARD(0) \o SN(<<"A", "1">>), BOARD(7) \o SN(<<"B", "2">>),
     Addr(0, 2, 0) \o CALEN(1)}

\* lines for the calibrated voltage output of board 0
VoltLines ==
    {Addr(0, 2, 0) \o v :
        v \in {CALGAIN(<<"2", ".", "0">>), CALOFFS(<<"0", ".", "1">>),
               CALEN(1), CALEN(0), VOLT(<<"1", ".", "0">>),
               VOLT(<<"2", ".", "1">>), VOLT(<<"4", ".", "0">>), CODE(1000)}}
    \cup {BOARD(0) \o DAC(2) \o SPANALL(0)}

\* lines for the fault query
FaultLines == {FAULTQ}

\* what the fault inputs can show: nothing asserted, one input of one
\* expander low, or one input of each low; and the FAULT line either way
FaultSnapshots ==
    {[line |-> f, exp1 |-> e1, exp2_a |-> e2] :
        f \in BOOLEAN,
        e1 \in {65535} \cup {65535 - (2 ^ p) : p \in 0 .. 15},
        e2 \in {255} \cup {255 - (2 ^ p) : p \in 0 .. 7}}

\* a serial number as long as the serial-number field
LongSerial == [i \in 1 .. SERIAL_NUMBER_MAX_LEN |-> "X"]

\* serial-number texts as typed (raw) and as the command takes them (text)
SerialTexts ==
    {[raw |-> <<"A", "1">>, text |-> <<"A", "1">>],
     [raw |-> <<" ", "B", " ", "2", " ", " ">>, text |-> <<"B", " ", "2">>],
     [raw |-> LongSerial, text |-> LongSerial]}

\* lines for the serial numbers
SerialLines ==
    {BOARD(b) \o SN(x.raw) : b \in {0, 1, 7}, x \in SerialTexts}
    \cup {BOARD(b) \o SNQ : b \in {0, 1, 7}}
    \cup {CALCLEAR}

\* lines for the spans, the resolution and the reset
SpanLines ==
    {RST}
    \cup {BOARD(0) \o DAC(0) \o SPANALL(v) : v \in {2, 17}}
    \cup {BOARD(0) \o DAC(2) \o SPANALL(v) : v \in {1, 5}}
    \cup {BOARD(7) \o DAC(1) \o SPANALL(18), BOARD(0) \o DAC(0) \o SPAN(3)}
    \cup {BOARD(0) \o DAC(d) \o RES(v) : d \in {0, 2}, v \in {12, 16}}

Lines ==
    DacLines \cup CalLines \cup VoltLines \cup FaultLines \cup SerialLines
    \cup SpanLines

\* ScpiParser::parse applied to each input line
Parsed == [l \in Lines |-> parse(l)]

-----------------------------------------------------------------------------
(* The program *)

\* a record that an earlier run saved: board 0 named, one channel calibrated
StoredRecord(n) ==
    BuildRecord([b \in 0 .. (n - 1) |-> IF b = 0 THEN <<"F", "1">> ELSE <<>>],
                [b \in 0 .. (n - 1) |-> [d \in Dacs |-> [ch \in Channels |->
                    IF b = 0 /\ d = 2 /\ ch = 1
                    THEN [gain |-> 1500, offset |-> -250, enabled |-> TRUE]
                    ELSE DefaultCalibration]]])

\* what the calibration sector can hold at power-on: nothing, a record, or
\* a record with a foreign magic, another version or a damaged body
FlashImages(n) ==
    {ErasedImage(n),
     StoredRecord(n),
     [StoredRecord(n) EXCEPT !.magic = <<0, 0>>],
     [StoredRecord(n) EXCEPT !.version = CAL_VERSION + 1],
     [StoredRecord(n) EXCEPT !.channels[0][0][0].gain = 1001]}

\* the state once BoardManager's constructor has run
Init ==
    /\ single_board_mode \in BOOLEAN
    /\ software_tree \in BOOLEAN
    /\ pc = "boot"
    /\ line = <<>>
    /\ cmd = NewCommand
    /\ response = ""
    /\ dacs = [b \in Boards |-> [d \in Dacs |-> NewDevice(d)]]
    /\ resolution_ = [b \in Boards |-> [d \in Dacs |->
                         IF d < 2 THEN DEFAULT_CURRENT_DAC_RESOLUTION
                         ELSE DEFAULT_VOLTAGE_DAC_RESOLUTION]]
    /\ serial_numbers_ = [b \in Boards |-> <<>>]
    /\ calibration_ = [b \in Boards |-> [d \in Dacs |->
                          [ch \in Channels |-> DefaultCalibration]]]
    /\ flash \in FlashImages(NUM_BOARDS)
    /\ frames = <<>>
    /\ ldac_pulses = 0
    /\ bus = <<>>
    /\ newlines = 0
    /\ fault_pins = IdlePins
    /\ faults = NotRead
    /\ oob = FALSE
    /\ spi_ = SpiInit
    /\ saved = NoSave

\* main(): board_manager.init_all() before the command loop
InitAll ==
    /\ pc = "boot"
    /\ Commit([init_all(Keep(<<>>, NewCommand)) EXCEPT !.pc = "ready"])

\* the command loop read line l and the parser made a command of type t of it
Dispatch(l, t) == pc = "ready" /\ Parsed[l].valid /\ Parsed[l].type \in t

\* the state a handler starts from
Enter(l) == Keep(l, Parsed[l])

ExecuteInvalid(l) ==
    /\ pc = "ready"
    /\ ~Parsed[l].valid
    /\ Commit(execute_invalid(Enter(l)))

ExecuteIdn(l) ==
    /\ Dispatch(l, {"IDN_QUERY"})
    /\ Commit(execute_idn(Enter(l)))

ExecuteRst(l) ==
    /\ Dispatch(l, {"RST"})
    /\ Commit(execute_rst(Enter(l)))

ExecuteSetVoltage(l) ==
    /\ Dispatch(l, {"SET_VOLTAGE"})
    /\ \E wild \in BOOLEAN : Commit(execute_set_voltage(Enter(l), wild))

ExecuteSetCurrent(l) ==
    /\ Dispatch(l, {"SET_CURRENT"})
    /\ \E wild \in BOOLEAN : \E code \in CurrentCodes(Enter(l)) :
          Commit(execute_set_current(Enter(l), code, wild))

ExecuteSetCode(l) ==
    /\ Dispatch(l, {"SET_CODE"})
    /\ Commit(execute_set_code(Enter(l)))

ExecuteSetSpan(l) ==
    /\ Dispatch(l, {"SET_SPAN", "SET_ALL_SPAN"})
    /\ Commit(execute_set_span(Enter(l)))

ExecuteUpdate(l) ==
    /\ Dispatch(l, {"UPDATE", "UPDATE_ALL"})
    /\ Commit(execute_update(Enter(l)))

ExecutePowerDown(l) ==
    /\ Dispatch(l, {"POWER_DOWN", "POWER_DOWN_CHIP"})
    /\ Commit(execute_power_down(Enter(l)))

ExecuteGetResolution(l) ==
    /\ Dispatch(l, {"GET_RESOLUTION"})
    /\ Commit(execute_get_resolution(Enter(l)))

ExecuteSetResolution(l) ==
    /\ Dispatch(l, {"SET_RESOLUTION"})
    /\ Commit(execute_set_resolution(Enter(l)))

ExecuteGetOutput(l) ==
    /\ Dispatch(l, {"GET_VOLTAGE", "GET_CURRENT"})
    /\ Commit(Answer(Enter(l), "ERROR:Query not implemented"))

ExecuteSetSerial(l) ==
    /\ Dispatch(l, {"SET_SERIAL"})
    /\ Commit(execute_set_serial(Enter(l)))

ExecuteGetSerial(l) ==
    /\ Dispatch(l, {"GET_SERIAL"})
    /\ Commit(execute_get_serial(Enter(l)))

ExecuteSetCalGain(l) ==
    /\ Dispatch(l, {"SET_CAL_GAIN"})
    /\ Commit(execute_set_cal_gain(Enter(l)))

ExecuteGetCalGain(l) ==
    /\ Dispatch(l, {"GET_CAL_GAIN"})
    /\ Commit(execute_get_cal_gain(Enter(l)))

ExecuteSetCalOffset(l) ==
    /\ Dispatch(l, {"SET_CAL_OFFSET"})
    /\ Commit(execute_set_cal_offset(Enter(l)))

ExecuteGetCalOffset(l) ==
    /\ Dispatch(l, {"GET_CAL_OFFSET"})
    /\ Commit(execute_get_cal_offset(Enter(l)))

ExecuteSetCalEnable(l) ==
    /\ Dispatch(l, {"SET_CAL_ENABLE"})
    /\ Commit(execute_set_cal_enable(Enter(l)))

ExecuteGetCalEnable(l) ==
    /\ Dispatch(l, {"GET_CAL_ENABLE"})
    /\ Commit(execute_get_cal_enable(Enter(l)))

ExecuteCalClear(l) ==
    /\ Dispatch(l, {"CAL_CLEAR"})
    /\ Commit(execute_cal_clear(Enter(l)))

ExecuteCalSave(l) ==
    /\ Dispatch(l, {"CAL_SAVE"})
    /\ \E programmed \in BOOLEAN :
          Commit(execute_cal_save(Enter(l), programmed))

ExecuteCalLoad(l) ==
    /\ Dispatch(l, {"CAL_LOAD"})
    /\ Commit(execute_cal_load(Enter(l)))

ExecuteCalDataQuery(l) ==
    /\ Dispatch(l, {"CAL_DATA_QUERY"})
    /\ Commit(execute_cal_data_query(Enter(l)))

ExecuteFaultQuery(l, pins) ==
    /\ Dispatch(l, {"FAULT_QUERY"})
    /\ Commit(execute_fault_query(Enter(l), pins))

\* the devices the calls of SpiManager are followed on
PinTargets == Boards \X Dacs

\* SpiManager::transaction for an update-all frame, up to the return of
\* select_downstream
BeginTransaction(board_id, device_id) ==
    /\ pc = "ready"
    /\ Commit([Keep(<<>>, NewCommand) EXCEPT
                  !.pc = "selected",
                  !.frames = <<send_command(dacs[board_id][device_id],
                                            UPDATE_ALL, 0, 0)>>,
                  !.bus = select_downstream(board_id, device_id),
                  !.spi_ = select_downstream_pins(spi_, board_id, device_id)])

\* SpiManager::transaction, the bytes of the frame clocked out
ClockTransaction ==
    /\ pc = "selected"
    /\ Commit([Keep(<<>>, NewCommand) EXCEPT
                  !.pc = "clocked",
                  !.frames = frames,
                  !.bus = <<Event("transfer", -1, frames[1].board,
                                  frames[1].device, frames[1].bytes)>>])

\* SpiManager::transaction from the call of deselect to its return
EndTransaction ==
    /\ pc = "clocked"
    /\ Commit([Keep(<<>>, NewCommand) EXCEPT
                  !.pc = "ready",
                  !.frames = frames,
                  !.bus = deselect(frames[1].device),
                  !.spi_ = deselect_pins(spi_)])

\* a call of SpiManager::pulse_ldac
PulseLdac ==
    /\ pc = "ready"
    /\ Commit(pulse_ldac(Keep(<<>>, NewCommand)))

\* a call of SpiManager::assert_clear
AssertClear ==
    /\ pc = "ready"
    /\ Commit([Keep(<<>>, NewCommand) EXCEPT
                  !.bus = assert_clear(spi_),
                  !.spi_ = assert_clear_pins(spi_)])

\* a call of SpiManager::release_clear
ReleaseClear ==
    /\ pc = "ready"
    /\ Commit([Keep(<<>>, NewCommand) EXCEPT
                  !.bus = release_clear(spi_),
                  !.spi_ = release_clear_pins(spi_)])

\* the command loop fed with the DAC command lines
Next ==
    \/ InitAll
    \/ \E l \in DacLines : ExecuteInvalid(l)
    \/ \E l \in DacLines : ExecuteIdn(l)
    \/ \E l \in DacLines : ExecuteSetVoltage(l)
    \/ \E l \in DacLines : ExecuteSetCurrent(l)
    \/ \E l \in DacLines : ExecuteSetCode(l)
    \/ \E l \in DacLines : ExecuteSetSpan(l)
    \/ \E l \in DacLines : ExecuteUpdate(l)
    \/ \E l \in DacLines : ExecutePowerDown(l)
    \/ \E l \in DacLines : ExecuteGetResolution(l)
    \/ \E l \in DacLines : ExecuteSetResolution(l)
    \/ \E l \in DacLines : ExecuteGetOutput(l)
    \/ \E l \in DacLines : ExecuteGetSerial(l)
    \/ \E l \in DacLines : ExecuteSetCalGain(l)
    \/ \E l \in DacLines : ExecuteGetCalGain(l)
    \/ \E l \in DacLines : ExecuteSetCalOffset(l)
    \/ \E l \in DacLines : ExecuteGetCalOffset(l)
    \/ \E l \in DacLines : ExecuteSetCalEnable(l)
    \/ \E l \in DacLines : ExecuteGetCalEnable(l)

\* power-on with nothing in the calibration sector
InitBlank == Init /\ software_tree /\ flash = ErasedImage(NUM_BOARDS)

Spec == InitBlank /\ [][Next]_vars

\* the command loop fed with the calibration store lines
NextCal ==
    \/ InitAll
    \/ \E l \in CalLines : ExecuteRst(l)
    \/ \E l \in CalLines : ExecuteSetSerial(l)
    \/ \E l \in CalLines : ExecuteSetCalEnable(l)
    \/ \E l \in CalLines : ExecuteCalClear(l)
    \/ \E l \in CalLines : ExecuteCalSave(l)
    \/ \E l \in CalLines : ExecuteCalLoad(l)
    \/ \E l \in CalLines : ExecuteCalDataQuery(l)

\* the command loop fed with the lines for the calibrated voltage output
NextVolt ==
    \/ InitAll
    \/ \E l \in VoltLines : ExecuteSetCalGain(l)
    \/ \E l \in VoltLines : ExecuteSetCalOffset(l)
    \/ \E l \in VoltLines : ExecuteSetCalEnable(l)
    \/ \E l \in VoltLines : ExecuteSetSpan(l)
    \/ \E l \in VoltLines : ExecuteSetVoltage(l)
    \/ \E l \in VoltLines : ExecuteSetCode(l)

SpecVolt == InitBlank /\ [][NextVolt]_vars

\* the command loop fed with fault queries
NextFault ==
    \/ InitAll
    \/ \E l \in FaultLines : \E pins \in FaultSnapshots :
          ExecuteFaultQuery(l, pins)

\* power-on of either build of IoExpander with an erased sector
InitFault == Init /\ flash = ErasedImage(NUM_BOARDS)

SpecFault == InitFault /\ [][NextFault]_vars

\* the command loop fed with the span, resolution and reset lines
NextSpan ==
    \/ InitAll
    \/ \E l \in SpanLines : ExecuteRst(l)
    \/ \E l \in SpanLines : ExecuteSetSpan(l)
    \/ \E l \in SpanLines : ExecuteSetResolution(l)

SpecSpan == InitBlank /\ [][NextSpan]_vars

\* the calls BoardManager and the devices can make on SpiManager once the
\* devices are initialized
NextPins ==
    \/ InitAll
    \/ \E t \in PinTargets : BeginTransaction(t[1], t[2])
    \/ ClockTransaction
    \/ EndTransaction
    \/ PulseLdac
    \/ AssertClear
    \/ ReleaseClear

SpecPins == InitFault /\ [][NextPins]_vars

\* the command loop fed with the serial-number lines
NextSerial ==
    \/ InitAll
    \/ \E l \in SerialLines : ExecuteSetSerial(l)
    \/ \E l \in SerialLines : ExecuteGetSerial(l)
    \/ \E l \in SerialLines : ExecuteCalClear(l)

SpecSerial == InitBlank /\ [][NextSerial]_vars

\* power-on with any of the sector images
InitStore == Init /\ software_tree

SpecCal == InitStore /\ [][NextCal]_vars

-----------------------------------------------------------------------------
(* Properties *)

\* the answers execute gives to a command it does not carry out because of
\* how it is addressed
AddressingErrors ==
    {"ERROR:Missing address", "ERROR:DAC not initialized",
     "ERROR:Invalid channel", "ERROR:Missing channel",
     "ERROR:Use CURR for current DACs", "ERROR:Use VOLT for voltage DACs",
     "ERROR:Invalid board/DAC", "ERROR:Invalid board"}

\* every answer of the modelled handlers that begins with "ERROR:"
ErrorResponses ==
    AddressingErrors
    \cup {"ERROR:Unknown command", "ERROR:Empty command",
          "ERROR:Code exceeds max (4095 for 12-bit)",
          "ERROR:Code exceeds max (65535 for 16-bit)",
          "ERROR:Query not implemented", "ERROR:Flash write failed",
          "ERROR:No valid calibration data"}

\* the last step executed a valid command of one of the types t
Executed(t) == pc = "ready" /\ cmd.valid /\ cmd.type \in t

\* this step executes a valid command of one of the types t
Executes(t) == pc = "ready" /\ pc' = "ready" /\ cmd'.valid /\ cmd'.type \in t

\* the record in img would not pass the magic, version and checksum test
FailsValidation(img) ==
    \/ img.magic # CAL_MAGIC
    \/ img.version # CAL_VERSION
    \/ img.checksum # calculate_crc16(PayloadBytes(img))

AllUnset == [b \in Boards |-> <<>>]

AllDefault == [b \in Boards |-> [d \in Dacs |-> [ch \in Channels |->
                  [gain |-> 1000, offset |-> 0, enabled |-> FALSE]]]]

\* C1: with device (0,0) at 16 bit, BOARD0:DAC0:CH0:CODE 65535 is answered
\* OK, and CODE 65536 or CODE 70000 is answered exactly
\* "ERROR:Code exceeds max (65535 for 16-bit)".
C1_CodeAbove65535ExceedsMax ==
    (pc = "ready" /\ dacs[0][0].resolution_bits = 16) =>
        /\ line = Addr(0, 0, 0) \o CODE(65535) => response = "OK"
        /\ line \in {Addr(0, 0, 0) \o CODE(65536), Addr(0, 0, 0) \o CODE(70000)}
              => response = "ERROR:Code exceeds max (65535 for 16-bit)"

\* C2: *RST leaves every serial number and every calibration entry as it
\* was, whatever the calibration sector holds.
C2_ResetKeepsCalibration ==
    [][Executes({"RST"}) =>
          /\ serial_numbers_' = serial_numbers_
          /\ calibration_' = calibration_]_vars

\* C3: when the stored record fails the magic, version or checksum test,
\* CAL:LOAD answers an error and no serial number or calibration entry
\* changes.
C3_FailedLoadLeavesState ==
    [][(Executes({"CAL_LOAD"}) /\ FailsValidation(flash)) =>
          /\ response' = "ERROR:No valid calibration data"
          /\ serial_numbers_' = serial_numbers_
          /\ calibration_' = calibration_]_vars

\* a CAL:LOAD was refused for its checksum alone while board 0 carried a
\* serial number set by command
C3_Witness ==
    /\ Executed({"CAL_LOAD"})
    /\ response = "ERROR:No valid calibration data"
    /\ flash.magic = CAL_MAGIC
    /\ flash.version = CAL_VERSION
    /\ serial_numbers_[0] = <<"A", "1">>

\* C4: after a CAL:SAVE answered OK, with no save or clear since, CAL:LOAD
\* answers OK and every serial number and calibration entry has the value
\* it had at the save.
C4_LoadRestoresSaved ==
    (Executed({"CAL_LOAD"}) /\ saved.valid) =>
        /\ response = "OK"
        /\ serial_numbers_ = saved.serial_numbers
        /\ calibration_ = saved.calibration

\* a CAL:LOAD brought back a saved state in which board 0 was named and a
\* channel's calibration was enabled
C4_Witness ==
    /\ Executed({"CAL_LOAD"})
    /\ saved.valid
    /\ response = "OK"
    /\ serial_numbers_[0] = <<"A", "1">>
    /\ calibration_[0][2][0].enabled

\* C5: CAL:CLEAR answers OK, leaves every calibration entry at (1.0, 0.0,
\* disabled), every serial number unset and the sector erased; a CAL:LOAD
\* that follows it is answered "ERROR:No valid calibration data" and
\* changes nothing.
C5_ClearResetsAndErases ==
    [][/\ Executes({"CAL_CLEAR"}) =>
            /\ response' = "OK"
            /\ serial_numbers_' = AllUnset
            /\ calibration_' = AllDefault
            /\ flash' = ErasedImage(NUM_BOARDS)
       /\ (Executed({"CAL_CLEAR"}) /\ Executes({"CAL_LOAD"})) =>
            /\ response' = "ERROR:No valid calibration data"
            /\ serial_numbers_' = serial_numbers_
            /\ calibration_' = calibration_]_vars

\* a CAL:CLEAR was carried out and left the defaults and an erased sector
C5_Witness ==
    /\ Executed({"CAL_CLEAR"})
    /\ response = "OK"
    /\ flash = ErasedImage(NUM_BOARDS)
    /\ serial_numbers_ = AllUnset
    /\ calibration_ = AllDefault

\* C6: on every board and slot, at either resolution, SET_CODE on a
\* channel of the device with the value max_code is answered OK and sends
\* one write-and-update frame, and with max_code + 1 it is answered with
\* an error and sends no frame.
C6_CodeCeiling ==
    pc = "ready" =>
        \A b \in Boards : \A d \in Dacs : \A ch \in DOMAIN dacs[b][d].span :
            /\ line = Addr(b, d, ch) \o CODE(dacs[b][d].max_code) =>
                  /\ response = "OK"
                  /\ Len(frames) = 1
                  /\ frames[1].board = b
                  /\ frames[1].device = d
                  /\ frames[1].bytes[1] = WRITE_UPDATE_N * 16 + ch
            /\ line = Addr(b, d, ch) \o CODE(dacs[b][d].max_code + 1) =>
                  /\ response \in ErrorResponses
                  /\ frames = <<>>

\* the 12-bit voltage device of board 0 refused the code 4096
C6_Witness ==
    /\ pc = "ready"
    /\ line = Addr(0, 2, 0) \o CODE(4096)
    /\ dacs[0][2].max_code = 4095
    /\ response = "ERROR:Code exceeds max (4095 for 12-bit)"
    /\ frames = <<>>

\* C7: an addressed command whose channel index is at or beyond the
\* device's channel count is answered "ERROR:Invalid channel" and not
\* executed: per-channel power-down, the calibration get and set commands,
\* set-voltage and set-code.
C7_ChannelBeyondDeviceRejected ==
    (/\ Executed({"POWER_DOWN", "SET_VOLTAGE", "SET_CODE",
                  "SET_CAL_GAIN", "GET_CAL_GAIN", "SET_CAL_OFFSET",
                  "GET_CAL_OFFSET", "SET_CAL_ENABLE", "GET_CAL_ENABLE"})
     /\ cmd.board_id \in Boards
     /\ cmd.dac_id \in Dacs
     /\ cmd.type = "SET_VOLTAGE" => cmd.dac_id = 2
     /\ cmd.channel_id >= get_num_channels(dacs[cmd.board_id][cmd.dac_id]))
    => (response = "ERROR:Invalid channel" /\ frames = <<>>)

\* C8: when execute answers a parse or an addressing error, nothing is
\* executed: no frame, no latch pulse, and no change of a device's span or
\* resolution, of the calibration, the serial numbers or the sector.
C8_ErrorsExecuteNothing ==
    [][(/\ pc = "ready"
        /\ pc' = "ready"
        /\ ~cmd'.valid \/ response' \in AddressingErrors) =>
          /\ frames' = <<>>
          /\ ldac_pulses' = 0
          /\ dacs' = dacs
          /\ resolution_' = resolution_
          /\ calibration_' = calibration_
          /\ serial_numbers_' = serial_numbers_
          /\ flash' = flash]_vars

\* a set-voltage on channel 4 of the voltage device was refused after the
\* device had been given another resolution
C8_Witness ==
    /\ Executed({"SET_VOLTAGE"})
    /\ response = "ERROR:Invalid channel"
    /\ cmd.channel_id = 4
    /\ resolution_[0][2] = 16
    /\ frames = <<>>

\* C9: SET_VOLTAGE to slot 0 or 1 and SET_CURRENT to slot 2 are answered
\* with an error and send nothing; the frames of a SET_VOLTAGE go to slot
\* 2 only, those of a SET_CURRENT to slots 0 and 1 only.
C9_KindMismatchNotRouted ==
    (pc = "ready" /\ cmd.valid) =>
        /\ (cmd.type = "SET_VOLTAGE" /\ cmd.dac_id \in {0, 1}) =>
              (response \in ErrorResponses /\ frames = <<>>)
        /\ (cmd.type = "SET_CURRENT" /\ cmd.dac_id = 2) =>
              (response \in ErrorResponses /\ frames = <<>>)
        /\ cmd.type = "SET_VOLTAGE" =>
              \A i \in 1 .. Len(frames) : frames[i].device = 2
        /\ cmd.type = "SET_CURRENT" =>
              \A i \in 1 .. Len(frames) : frames[i].device \in {0, 1}

\* a set-current addressed to the voltage device was refused
C9_Witness ==
    /\ Executed({"SET_CURRENT"})
    /\ cmd.dac_id = 2
    /\ response = "ERROR:Use VOLT for voltage DACs"
    /\ frames = <<>>

\* C10: in a command the parser marks valid, board_id is -1 or a board of
\* the build, dac_id is -1 or in 0..2, channel_id is -1 or in 0..4.
C10_ParsedAddressInRange ==
    cmd.valid =>
        /\ cmd.board_id \in {-1} \cup Boards
        /\ cmd.dac_id \in {-1} \cup Dacs
        /\ cmd.channel_id \in {-1} \cup Channels

\* lines that fail for an unknown verb, for an index out of range, and for
\* a payload that is no number
UnknownVerbLines == {<<"F", "O", "O">>}

IndexRangeLines ==
    {BOARD(8) \o DAC(0) \o CH(0) \o CODE(1),
     BOARD(0) \o DAC(3) \o CH(0) \o CODE(1),
     BOARD(0) \o DAC(0) \o CH(5) \o CODE(1)}

PayloadLines ==
    {Addr(0, 0, 0) \o <<"C", "O", "D", "E", " ", "-", "1">>,
     Addr(0, 2, 0) \o VOLT(<<"a", "b", "c">>)}

\* the diagnostics the parser gives to the lines of a set
Diagnostics(ls) == {Parsed[l].error_msg : l \in ls}

\* C11: the diagnostic of an invalid command tells the failures apart: an
\* unknown verb, an index out of range and a malformed payload have
\* different error_msg texts, and execute answers "ERROR:" followed by the
\* diagnostic.
C11_DiagnosticsDistinguish ==
    [][(pc = "ready" /\ pc' = "ready" /\ ~cmd'.valid) =>
          /\ response' = "ERROR:" \o cmd'.error_msg
          /\ line' \in UnknownVerbLines =>
                cmd'.error_msg \notin
                    Diagnostics(IndexRangeLines \cup PayloadLines)
          /\ line' \in IndexRangeLines =>
                cmd'.error_msg \notin
                    Diagnostics(UnknownVerbLines \cup PayloadLines)
          /\ line' \in PayloadLines =>
                cmd'.error_msg \notin
                    Diagnostics(UnknownVerbLines \cup IndexRangeLines)]_vars

\* lines in which an index token is followed by two digits
MultiDigitLines == {BOARD(12) \o DAC(0) \o CH(0) \o CODE(1)}

\* C12: a line whose BOARD, DAC or CH token is followed by more than one
\* digit yields an invalid command.
C12_MultiDigitIndexInvalid ==
    (pc = "ready" /\ line \in MultiDigitLines) => ~cmd.valid


\* C13: every response of execute is one line of text: it holds no line
\* break
C13_ResponseIsOneLine == pc = "ready" => newlines = 0


\* the outcome of the handler for the command c on line l when every
\* channel has the default calibration
Uncalibrated(l, c) == clear_all_calibration(Keep(l, c))

\* value * gain + offset in thousandths
Corrected(value, cal) == (value * cal.gain) \div 1000 + cal.offset

\* C14: SET_VOLTAGE on a channel with calibration enabled writes what an
\* uncalibrated SET_VOLTAGE writes for value * gain + offset; with calibration
\* disabled it writes what an uncalibrated SET_VOLTAGE writes for the value
\* itself; SET_CODE writes what it writes without any calibration
C14_CalibratedVoltage ==
    [][/\ (Executes({"SET_VOLTAGE"}) /\ response' = "OK") =>
            LET c == cmd'
                cal == calibration_[c.board_id][c.dac_id][c.channel_id]
            IN  frames' = execute_set_voltage(
                    Uncalibrated(line',
                        [c EXCEPT !.float_value =
                            IF cal.enabled THEN Corrected(c.float_value, cal)
                            ELSE c.float_value]), FALSE).frames
       /\ (Executes({"SET_CODE"}) /\ response' = "OK") =>
            frames' = execute_set_code(Uncalibrated(line', cmd')).frames]_vars

\* VOLT 1.0 went out on a channel with gain 2.0 and offset 0.1 enabled
C14_Witness ==
    /\ pc = "ready"
    /\ line = Addr(0, 2, 0) \o VOLT(<<"1", ".", "0">>)
    /\ calibration_[0][2][0] = [gain |-> 2000, offset |-> 100, enabled |-> TRUE]
    /\ response = "OK"
    /\ Len(frames) = 1


\* the address the select lines carry for a device: the index of the device
\* in the decoder tree, or its chip-select pin in the single-board build
Target(board, device) ==
    IF single_board_mode THEN device ELSE (board * 3) + device

\* the positions of the transfers in the log of a step
TransferAt(log) == {i \in DOMAIN log : log[i].op = "transfer"}

\* C15: every frame goes out as select, transfer, deselect: the select just
\* before the bytes carries the address of the frame's device, the deselect
\* follows the bytes at once, nothing is selected while another select is
\* still in force, and the frames of the step are the transfers, in order
C15_SelectTransferDeselect ==
    /\ \A i \in TransferAt(bus) :
          /\ i > 1 /\ i < Len(bus)
          /\ bus[i - 1].op = "select"
          /\ bus[i - 1].addr = Target(bus[i].board, bus[i].device)
          /\ bus[i + 1].op = "deselect"
    /\ \A i \in DOMAIN bus :
          /\ bus[i].op = "select" => (i + 1) \in TransferAt(bus)
          /\ bus[i].op = "deselect" => (i - 1) \in TransferAt(bus)
    /\ Cardinality(TransferAt(bus)) = Len(frames)
    /\ \A k \in DOMAIN frames :
          \E i \in TransferAt(bus) :
             /\ Cardinality({j \in TransferAt(bus) : j <= i}) = k
             /\ bus[i].board = frames[k].board
             /\ bus[i].device = frames[k].device
             /\ bus[i].bytes = frames[k].bytes

\* a step that sent frames to two devices, one after the other
C15_Witness ==
    /\ pc = "ready"
    /\ \E i, j \in TransferAt(bus) :
          /\ i < j
          /\ bus[i - 1].addr # bus[j - 1].addr
          /\ bus[i + 1].op = "deselect"


\* the update-all frame of every device of every board, board by board
UpdateAllFrames ==
    [k \in 1 .. (DACS_PER_BOARD * NUM_BOARDS) |->
        [board |-> (k - 1) \div DACS_PER_BOARD,
         device |-> (k - 1) % DACS_PER_BOARD,
         bytes |-> <<UPDATE_ALL * 16, 0, 0>>]]

\* the latch line went low once in the step, after every transfer, and came
\* back high as the last thing of the step
LatchedOnceAtEnd ==
    /\ ldac_pulses = 1
    /\ Len(bus) >= 2
    /\ bus[Len(bus) - 1].op = "ldac_low"
    /\ bus[Len(bus)].op = "ldac_high"
    /\ \A i \in 1 .. (Len(bus) - 2) : bus[i].op \notin {"ldac_low", "ldac_high"}

\* no latch pulse in the step
NotLatched ==
    /\ ldac_pulses = 0
    /\ \A i \in DOMAIN bus : bus[i].op \notin {"ldac_low", "ldac_high"}

\* a per-device UPDATE that was accepted sent the update frame of the
\* addressed device, and no latch pulse
DeviceUpdateOnly ==
    (Executed({"UPDATE"}) /\ response = "OK") =>
        /\ frames = <<[board |-> cmd.board_id, device |-> cmd.dac_id,
                       bytes |-> <<UPDATE_ALL * 16, 0, 0>>]>>
        /\ NotLatched

\* C16: UPDATE:ALL sends the update-all frame to each of the 3*N devices,
\* then exactly one latch pulse, and answers OK; a per-device UPDATE sends
\* one frame to its device and no latch pulse
C16_UpdateAllLatchesOnce ==
    /\ Executed({"UPDATE_ALL"}) =>
          /\ response = "OK"
          /\ frames = UpdateAllFrames
          /\ LatchedOnceAtEnd
    /\ DeviceUpdateOnly

\* C16, amended: as above in the multi-board build; the single-board build
\* sends the three update-all frames, answers OK and issues no latch pulse
C16_UpdateAllLatchesWhereWired ==
    /\ Executed({"UPDATE_ALL"}) =>
          /\ response = "OK"
          /\ frames = UpdateAllFrames
          /\ IF single_board_mode THEN NotLatched ELSE LatchedOnceAtEnd
    /\ DeviceUpdateOnly

\* UPDATE:ALL went through the 24 devices of the multi-board build
C16_Witness ==
    /\ Executed({"UPDATE_ALL"})
    /\ ~single_board_mode
    /\ Len(frames) = 24
    /\ ldac_pulses = 1
    /\ response = "OK"


\* C17: read_faults turns a snapshot with exactly one fault input low into
\* the bitmap with exactly the bit of that device: pin 2b+s of the
\* current-fault expander gives bit 3b+s, pin b of the temperature-fault
\* expander gives bit 3b+2; an all-high snapshot gives 0
C17_FaultRemap ==
    faults # NotRead =>
        /\ (fault_pins.exp1 = 65535 /\ fault_pins.exp2_a = 255) => faults = 0
        /\ \A b \in 0 .. 7 : \A s \in 0 .. 1 :
              (/\ fault_pins.exp1 = 65535 - (2 ^ (2 * b + s))
               /\ fault_pins.exp2_a = 255) => faults = 2 ^ (3 * b + s)
        /\ \A b \in 0 .. 7 :
              (/\ fault_pins.exp1 = 65535
               /\ fault_pins.exp2_a = 255 - (2 ^ b)) => faults = 2 ^ (3 * b + 2)

\* some fault input of an expander is low
SomeInputLow == fault_pins.exp1 # 65535 \/ fault_pins.exp2_a # 255

\* C18: in the multi-board build FAULT? answers OK exactly when the bitmap
\* read from the expanders is zero and FAULT:0x with the six hexadecimal
\* digits of the bitmap otherwise; never FAULT:0x000000, and never OK while
\* a fault input is low
C18_FaultAnswerFollowsBitmap ==
    (Executed({"FAULT_QUERY"}) /\ ~single_board_mode) =>
        /\ response = "OK" <=> read_faults(fault_pins) = 0
        /\ response # "OK" =>
              response = "FAULT:0x" \o Hex6(read_faults(fault_pins))
        /\ response # "FAULT:0x000000"
        /\ ~(response = "OK" /\ SomeInputLow)


\* a span code the device knows
ValidSpan(dev, v) ==
    IF IsCurrentDac(dev) THEN v \in 0 .. 15 /\ LTC2662_FS_CURRENT[v + 1] > 0
    ELSE v \in 0 .. V_PM2_5

\* the step executes a span command of one of the kinds t, with a span code
\* its device knows, on a device the build has
SpansDevice(t) ==
    /\ Executes(t)
    /\ cmd'.board_id \in Boards /\ cmd'.dac_id \in Dacs
    /\ ValidSpan(dacs[cmd'.board_id][cmd'.dac_id], cmd'.int_value)

\* C19: an accepted per-channel set-span line gives a SET_SPAN command that
\* carries the channel index; executed with a valid span code it answers OK
\* and changes the cached span of that channel only; SPAN:ALL changes the
\* span of every channel of the addressed device and of no other device
C19_SpanPerChannelAndAll ==
    [][/\ SpansDevice({"SET_SPAN"}) =>
             /\ cmd'.channel_id \in DOMAIN dacs[cmd'.board_id][cmd'.dac_id].span
             /\ response' = "OK"
             /\ dacs' = [dacs EXCEPT
                   ![cmd'.board_id][cmd'.dac_id].span[cmd'.channel_id] =
                       cmd'.int_value]
       /\ SpansDevice({"SET_ALL_SPAN"}) =>
             /\ response' = "OK"
             /\ dacs' = [dacs EXCEPT ![cmd'.board_id][cmd'.dac_id].span =
                   [ch \in DOMAIN dacs[cmd'.board_id][cmd'.dac_id].span |->
                       cmd'.int_value]]]_vars

\* the SPAN:ALL half of C19 on its own
SpanAllChangesOneDevice ==
    [][SpansDevice({"SET_ALL_SPAN"}) =>
             /\ response' = "OK"
             /\ dacs' = [dacs EXCEPT ![cmd'.board_id][cmd'.dac_id].span =
                   [ch \in DOMAIN dacs[cmd'.board_id][cmd'.dac_id].span |->
                       cmd'.int_value]]]_vars


\* GET_RESOLUTION on the device (b, d), as the parser hands it over
ResolutionQuery(b, d) ==
    [NewCommand EXCEPT !.type = "GET_RESOLUTION", !.is_query = TRUE,
                       !.board_id = b, !.dac_id = d, !.valid = TRUE]

\* the span init() gives every channel of a device
DefaultSpan(dev) == IF IsCurrentDac(dev) THEN MA_3_125 ELSE V_PM10

\* what SET_RESOLUTION r on the device (b, d) has to leave behind
Reconfigured(b, d, r) ==
    /\ execute_get_resolution(
          [Keep(<<>>, ResolutionQuery(b, d)) EXCEPT !.dacs = dacs']).response
         = ToString(r)
    /\ dacs'[b][d].resolution_bits = r
    /\ dacs'[b][d].max_code = (2 ^ r) - 1
    /\ \A ch \in DOMAIN dacs'[b][d].span :
          dacs'[b][d].span[ch] = DefaultSpan(dacs'[b][d])
    /\ \A b2 \in Boards : \A d2 \in Dacs :
          (b2 # b \/ d2 # d) =>
              /\ dacs'[b2][d2] = dacs[b2][d2]
              /\ resolution_'[b2][d2] = resolution_[b2][d2]

\* C20: after SET_RESOLUTION r, r in {12, 16}, has answered OK,
\* GET_RESOLUTION on the device returns r, its max code is 2^r - 1, all its
\* channel spans are the default span again, and the resolution and spans
\* of every other device are as before
C20_ResolutionReconfigures ==
    [][(/\ Executes({"SET_RESOLUTION"})
        /\ response' = "OK"
        /\ cmd'.int_value \in {12, 16}) =>
            Reconfigured(cmd'.board_id, cmd'.dac_id, cmd'.int_value)]_vars

\* the voltage device of board 0 was taken to 16 bits
C20_Witness ==
    /\ pc = "ready"
    /\ line = BOARD(0) \o DAC(2) \o RES(16)
    /\ response = "OK"
    /\ dacs[0][2].max_code = 65535
    /\ dacs[0][2].span = [ch \in 0 .. (LTC2664_NUM_CHANNELS - 1) |-> V_PM10]
    /\ Len(frames) = 2


\* BOARD<b>:SN? as the parser hands it over
SerialQuery(b) ==
    [NewCommand EXCEPT !.type = "GET_SERIAL", !.is_query = TRUE,
                       !.board_id = b, !.valid = TRUE]

\* the answer of BOARD<b>:SN? in the state this step leaves
SerialAfter(b) ==
    execute_get_serial(
        [Keep(<<>>, SerialQuery(b)) EXCEPT
            !.serial_numbers_ = serial_numbers_']).response

\* C21: after BOARD<n>:SN <text> has answered OK, BOARD<n>:SN? returns the
\* text, trimmed, whatever text was accepted, and the serial numbers of the
\* other boards are as before; a board whose serial number is not set
\* answers "(not set)"
C21_SerialRoundTrip ==
    [][/\ \A b \in Boards : \A x \in SerialTexts :
             (/\ Executes({"SET_SERIAL"})
              /\ line' = BOARD(b) \o SN(x.raw)
              /\ response' = "OK") =>
                 /\ SerialAfter(b) = Joined(x.text)
                 /\ \A b2 \in Boards \ {b} :
                       serial_numbers_'[b2] = serial_numbers_[b2]
       /\ \A b \in Boards :
             (/\ Executes({"GET_SERIAL"})
              /\ cmd'.board_id = b
              /\ serial_numbers_[b] = <<>>) => response' = "(not set)"]_vars


\* C22: every line the loop takes is answered with exactly one response
\* in the step that executes it, and the loop is back at reading the next
\* line afterwards, whatever the outcome of the command
C22_LoopAnswersAndReturns ==
    [][pc = "ready" => (pc' = "ready" /\ response' # "")]_vars


\* the decoder is enabled while the bytes of event i of the log are clocked:
\* a select came before it and no deselect has completed since
EnabledWhile(log, i) ==
    \E j \in 1 .. (i - 1) :
       /\ log[j].op = "select"
       /\ \A k \in (j + 1) .. (i - 1) : log[k].op # "deselect"

\* C23: while the decoder is enabled for a device the only bytes clocked on
\* the bus are those of the device's frame; no expander register access,
\* the write that clears the decoder-enable bit included, is clocked while
\* a downstream chip is selected
C23_OnlyFrameBytesWhileSelected ==
    \A i \in DOMAIN bus :
       (bus[i].bytes # <<>> /\ EnabledWhile(bus, i)) => bus[i].op = "transfer"


\* clamp(i, 0, fs)
Clamped(i, fs) == IF i < 0 THEN 0 ELSE IF i > fs THEN fs ELSE i

\* round(clamp(i, 0, fs) / fs * max_code), and 0 on a span with full-scale 0
RoundedCurrentCode(dev, channel, i) ==
    LET fs == LTC2662_FS_CURRENT[dev.span[channel] + 1]
    IN  IF fs = 0 THEN 0
        ELSE (2 * Clamped(i, fs) * dev.max_code + fs) \div (2 * fs)

\* C24: an accepted SET_CURRENT writes the code
\* round(clamp(I, 0, fs) / fs * max_code) to the channel, and the code 0 on
\* a channel whose span has full-scale 0
C24_CurrentCode ==
    [][(Executes({"SET_CURRENT"}) /\ response' = "OK") =>
          frames' = write_and_update(
                        dacs[cmd'.board_id][cmd'.dac_id], cmd'.channel_id,
                        RoundedCurrentCode(dacs[cmd'.board_id][cmd'.dac_id],
                                           cmd'.channel_id,
                                           cmd'.float_value)).out]_vars


\* C25: whatever command the parser hands over, in either build, execute
\* indexes the per-board arrays only with a board index below the board
\* count of the build
C25_BoardIndexWithinBuild == ~oob


\* C26: CAL:SAVE erases the sector before it programs it, so that nothing
\* of the old sector is left whether or not the write takes; the length it
\* programs is a whole number of pages that holds the record and fits the
\* sector; it answers OK exactly when the sector read back passes the
\* magic, version and checksum tests and "ERROR:Flash write failed"
\* otherwise; no serial number and no calibration entry changes.
C26_SaveErasesWritesVerifies ==
    [][Executes({"CAL_SAVE"}) =>
          /\ flash' \in {BuildRecord(serial_numbers_, calibration_),
                         ErasedImage(NUM_BOARDS)}
          /\ write_size % FLASH_PAGE_SIZE = 0
          /\ write_size >= bytes_to_write
          /\ write_size <= FLASH_SECTOR_SIZE
          /\ response' = (IF FailsValidation(flash')
                          THEN "ERROR:Flash write failed" ELSE "OK")
          /\ serial_numbers_' = serial_numbers_
          /\ calibration_' = calibration_]_vars

\* a CAL:SAVE failed while calibration was live: the sector is left
\* erased and board 0 keeps the serial number set by command
C26_Witness ==
    /\ Executed({"CAL_SAVE"})
    /\ response = "ERROR:Flash write failed"
    /\ flash = ErasedImage(NUM_BOARDS)
    /\ serial_numbers_[0] = <<"A", "1">>
    /\ calibration_[0][2][0].enabled


\* the manager after the step with CAL:LOAD carried out on it
LoadAfter ==
    execute_cal_load([Keep(<<>>, cmd') EXCEPT
                         !.flash = flash',
                         !.serial_numbers_ = serial_numbers_',
                         !.calibration_ = calibration_'])

\* C27: a CAL:SAVE answered "ERROR:Flash write failed" over a sector that
\* held a valid record leaves that record in the sector, and a CAL:LOAD
\* right after it answers OK and restores the state that record holds.
C27_FailedSaveKeepsStoredRecord ==
    [][(/\ Executes({"CAL_SAVE"})
        /\ response' = "ERROR:Flash write failed"
        /\ ~FailsValidation(flash)) =>
          /\ flash' = flash
          /\ LoadAfter.response = "OK"
          /\ LoadAfter.serial_numbers_ = LoadedSerials(flash)
          /\ LoadAfter.calibration_ = LoadedCalibration(flash)]_vars


\* the frame with command and data to the i-th device in board order
FrameTo(i, command, data) ==
    [board |-> i \div DACS_PER_BOARD, device |-> i % DACS_PER_BOARD,
     bytes |-> <<command * 16, 0, data>>]

\* the frames of a reset of n devices: a power-down-chip frame to each,
\* and after all of them a span-all frame with the default span and an
\* update-all frame to each
ResetFrames(fs, n) ==
    /\ Len(fs) = 3 * n
    /\ \A i \in 0 .. (n - 1) :
          /\ fs[i + 1] = FrameTo(i, POWER_DOWN_CHIP, 0)
          /\ fs[n + 2 * i + 1] =
                FrameTo(i, WRITE_SPAN_ALL,
                        IF i % DACS_PER_BOARD < 2 THEN MA_3_125 ELSE V_PM10)
          /\ fs[n + 2 * i + 2] = FrameTo(i, UPDATE_ALL, 0)

\* C28: *RST sends a power-down-chip frame to every device of every board
\* before the first frame of the re-initialization; when it has answered,
\* every channel span is the default of its device (3.125 mA, +/-10 V)
\* and every device has the resolution it had before.
C28_ResetPowersDownThenInitializes ==
    [][Executes({"RST"}) =>
          /\ response' = "OK"
          /\ ResetFrames(frames', NUM_BOARDS * DACS_PER_BOARD)
          /\ resolution_' = resolution_
          /\ \A b \in Boards : \A d \in Dacs :
                /\ dacs'[b][d].ptr
                /\ dacs'[b][d].resolution_bits = dacs[b][d].resolution_bits
                /\ dacs'[b][d].max_code = dacs[b][d].max_code
                /\ \A ch \in DOMAIN dacs'[b][d].span :
                      dacs'[b][d].span[ch] = DefaultSpan(dacs'[b][d])]_vars

\* a *RST was answered in the multi-board build with device (0, 0) at 12
\* bits: 24 power-down frames came first and the spans are the defaults
C28_Witness ==
    /\ Executed({"RST"})
    /\ response = "OK"
    /\ ~single_board_mode
    /\ dacs[0][0].resolution_bits = 12
    /\ dacs[0][0].span[0] = MA_3_125
    /\ dacs[0][2].span[0] = V_PM10
    /\ Len(frames) = 72
    /\ frames[24].bytes[1] = POWER_DOWN_CHIP * 16


\* C29: a SPAN:ALL answered OK carried a span code that is valid for the
\* addressed device and has left every channel of the device at it.
C29_SpanAllOkMeansSet ==
    [][(Executes({"SET_ALL_SPAN"}) /\ response' = "OK") =>
          /\ cmd'.board_id \in Boards /\ cmd'.dac_id \in Dacs
          /\ ValidSpan(dacs[cmd'.board_id][cmd'.dac_id], cmd'.int_value)
          /\ \A ch \in DOMAIN dacs'[cmd'.board_id][cmd'.dac_id].span :
                dacs'[cmd'.board_id][cmd'.dac_id].span[ch] = cmd'.int_value]_vars


\* frame f writes the span of channel ch of the current device (b, d)
WritesSpan(f, b, d, ch) ==
    /\ f.board = b /\ f.device = d
    /\ \/ f.bytes[1] = WRITE_SPAN_N * 16 + ch
       \/ f.bytes[1] \div 16 = WRITE_SPAN_ALL

\* C30: on every channel of every current device, a step that sends a
\* span code to the channel leaves the cached span equal to the code
\* sent, and a step that sends none leaves the cached span as it was.
C30_CachedSpanIsSentSpan ==
    [][pc' = "ready" =>
          \A b \in Boards : \A d \in {0, 1} :
             \A ch \in DOMAIN dacs'[b][d].span :
                /\ \A i \in 1 .. Len(frames') :
                      WritesSpan(frames'[i], b, d, ch) =>
                          dacs'[b][d].span[ch] = frames'[i].bytes[3]
                /\ (pc = "ready" /\ \A i \in 1 .. Len(frames') :
                                       ~WritesSpan(frames'[i], b, d, ch)) =>
                          dacs'[b][d].span[ch] = dacs[b][d].span[ch]]_vars


\* the address the decoder tree reads from the five select pins of a port
\* value: pin 4 - k carries address bit k on the wired board, pin k in the
\* placeholder pin map
DecoderAddress(port) ==
    IF software_tree
    THEN BitOf(port, 4) + BitOf(port, 3) * 2 + BitOf(port, 2) * 4
         + BitOf(port, 1) * 8 + BitOf(port, 0) * 16
    ELSE port % 32

\* the positions in the log of a step where the expander selects a device
SelectAt(log) == {i \in DOMAIN log : log[i].op = "select"}

\* C31: in the build with the expanders, every select writes to port A of
\* expander 0 a value with the decoder-enable bit set whose five select
\* pins encode board * 3 + slot of the device addressed, two selects of
\* different devices write different values, and every deselect writes
\* the port with the decoder-enable bit clear.
C31_SelectEncodesDevice ==
    ~single_board_mode =>
        /\ \A i \in SelectAt(bus) :
              /\ Len(bus[i].bytes) = 3
              /\ bus[i].bytes[1] = write_opcode(EXPANDER_0)
              /\ bus[i].bytes[2] = REG_GPIOA
              /\ BitOf(bus[i].bytes[3], D_EN_BIT) = 1
              /\ DecoderAddress(bus[i].bytes[3])
                    = bus[i + 1].board * 3 + bus[i + 1].device
              /\ \A j \in SelectAt(bus) :
                    (bus[i + 1].board # bus[j + 1].board
                     \/ bus[i + 1].device # bus[j + 1].device)
                        => bus[i].bytes[3] # bus[j].bytes[3]
        /\ \A i \in DOMAIN bus :
              bus[i].op = "deselect" =>
                  /\ bus[i].bytes[2] = REG_GPIOA
                  /\ BitOf(bus[i].bytes[3], D_EN_BIT) = 0

\* the 24 devices of the wired board were initialized: the last one,
\* board 7 slot 2 with address 23 = 10111b, was selected with 11101b and
\* the enable bit on the port
C31_Witness ==
    /\ pc = "ready"
    /\ ~single_board_mode
    /\ software_tree
    /\ Cardinality({bus[i].bytes[3] : i \in SelectAt(bus)}) = 24
    /\ \E i \in SelectAt(bus) :
          /\ bus[i + 1].board = 7 /\ bus[i + 1].device = 2
          /\ bus[i].bytes[3] = 61


\* the decoder-enable output of expander 0
DecoderEnabled == BitOf(PortOf(spi_.olat, 0), D_EN_BIT) = 1

\* C32: whenever no command is being executed, before and after the
\* power-on initialization and after every command, the decoder-enable
\* bit is clear; in the build without the decoder the three chip-select
\* pins are high and no device is recorded as selected.
C32_NothingSelectedBetweenCommands ==
    pc \in {"boot", "ready"} =>
        IF single_board_mode
        THEN /\ \A d \in 0 .. 2 : spi_.cs[d]
             /\ spi_.current_selected_dac_ = NONE_SELECTED
        ELSE ~DecoderEnabled

\* a command that sent frames through the decoder tree has been answered
\* and the port reads what deselect_dac wrote
C32_Witness ==
    /\ Executed({"SET_ALL_SPAN"})
    /\ ~single_board_mode
    /\ response = "OK"
    /\ Len(frames) = 5
    /\ bus[Len(bus) - 2].op = "select"
    /\ PortOf(spi_.olat, 0) = DeselectPort


\* the level of the CLR line is low
ClrLow ==
    IF single_board_mode THEN ~spi_.clr
    ELSE BitOf(PortOf(spi_.olat, CtrlPort), ClrPin) = 0

\* the register writes of a log to port of expander 0
WritesTo(log, port) ==
    {i \in DOMAIN log : /\ Len(log[i].bytes) = 3
                        /\ log[i].bytes[1] = write_opcode(EXPANDER_0)
                        /\ log[i].bytes[2] = REG_GPIOA + port}

\* C37: once the devices are initialized, a CLR line that is low stays
\* low through every step of a transaction and every latch pulse, in
\* every register write of the step and at its end; only release_clear
\* drives it high.
C37_ClearHeldUntilReleased ==
    [][(/\ pc # "boot"
        /\ ClrLow
        /\ \A i \in DOMAIN bus' : bus'[i].op # "clr_high") =>
          /\ ClrLow'
          /\ \A i \in WritesTo(bus', CtrlPort) :
                BitOf(bus'[i].bytes[3], ClrPin) = 0]_vars


\* the step is a call of IoExpander::pulse_ldac
Pulses == pc = "ready" /\ Len(bus') = 2 /\ bus'[1].op = "ldac_low"

\* C38: a call of pulse_ldac makes two register writes to the port of
\* expander 0 that carries LDAC: the first with the LDAC pin low, the
\* second with it high, every other pin of the port in both as it was
\* before the call; the other port, and so CLR and the decoder bits, and
\* expander_cache_ are unchanged by the call.
C38_LatchPulseLowThenHigh ==
    [][Pulses =>
          /\ bus'[2].op = "ldac_high"
          /\ WritesTo(bus', CtrlPort) = {1, 2}
          /\ BitOf(bus'[1].bytes[3], LdacPin) = 0
          /\ BitOf(bus'[2].bytes[3], LdacPin) = 1
          /\ bus'[1].bytes[3] = ClearBit(PortOf(spi_.olat, CtrlPort), LdacPin)
          /\ bus'[2].bytes[3] = PortOf(spi_.olat, CtrlPort)
          /\ spi_'.olat = spi_.olat
          /\ spi_'.expander_cache_ = spi_.expander_cache_
          /\ ClrLow' = ClrLow
          /\ DecoderEnabled' = DecoderEnabled]_vars

\* pulse_ldac was called while CLR was asserted, in the build that has
\* LDAC and CLR on port A: the pulse went out and CLR is still low
C38_Witness ==
    /\ pc = "ready"
    /\ ~single_board_mode
    /\ ~software_tree
    /\ Len(bus) = 2
    /\ bus[1].op = "ldac_low"
    /\ bus[1].bytes[3] = 0
    /\ bus[2].bytes[3] = 2 ^ LDAC_BIT
    /\ ClrLow


\* the chip-select pins that are low
LowPins(s) == {d \in 0 .. 2 : ~s.cs[d]}

\* SpiManager with device p selected, as select_downstream leaves it
Holding(p) == [spi_ EXCEPT !.cs[p] = FALSE, !.current_selected_dac_ = p]

\* C40: in the single-board build at most one chip-select pin is low in
\* every state; during a transaction it is the pin of the frame's device,
\* outside of one all three pins are high; and select_downstream applied
\* with a device selected leaves only the pin of the new device low.
C40_OneChipSelectAtATime ==
    single_board_mode =>
        /\ Cardinality(LowPins(spi_)) <= 1
        /\ pc \in {"selected", "clocked"} =>
              /\ LowPins(spi_) = {frames[1].device}
              /\ spi_.current_selected_dac_ = frames[1].device
        /\ pc \in {"boot", "ready"} =>
              /\ LowPins(spi_) = {}
              /\ spi_.current_selected_dac_ = NONE_SELECTED
              /\ \A p \in 0 .. 2 : \A d \in 0 .. 2 :
                    /\ LowPins(select_downstream_pins(Holding(p), 0, d)) = {d}
                    /\ LowPins(transaction_pins(
                           Holding(p),
                           [board |-> 0, device |-> d, bytes |-> <<>>])) = {}

\* the frame of device 2 is being clocked out in the single-board build
\* with the pin of device 2 low and the other two high
C40_Witness ==
    /\ single_board_mode
    /\ pc = "clocked"
    /\ bus[1].op = "transfer"
    /\ bus[1].device = 2
    /\ spi_.cs = [d \in 0 .. 2 |-> d # 2]
    /\ spi_.current_selected_dac_ = 2


\* voltages and currents, in thousandths, the conversions are compared on
SampleValues == {-10000, -2500, 0, 1, 1500, 3125, 5000, 10000}

\* C33: a SPAN:ALL issued again, right after the same line was answered
\* OK, sends the same frames and leaves every device as it was after the
\* first; the conversions of the device give after the second what they
\* gave after the first; and set_span applied twice to a channel of a
\* device leaves the device as applying it once.
C33_SetSpanIdempotent ==
    [][(/\ Executed({"SET_ALL_SPAN"}) /\ response = "OK"
        /\ Executes({"SET_ALL_SPAN"}) /\ line' = line) =>
          /\ response' = "OK"
          /\ frames' = frames
          /\ dacs' = dacs
          /\ \A v \in SampleValues :
                LET once == dacs[cmd.board_id][cmd.dac_id]
                    twice == dacs'[cmd.board_id][cmd.dac_id]
                IN  \A ch \in 0 .. (get_num_channels(once) - 1) :
                       IF IsCurrentDac(once)
                       THEN current_ma_to_code(twice, ch, v)
                               = current_ma_to_code(once, ch, v)
                       ELSE voltage_to_code(twice, ch, v)
                               = voltage_to_code(once, ch, v)
          /\ \A code \in {0, 3, 5, 17} :
                LET dev == dacs[cmd.board_id][cmd.dac_id]
                IN  \A ch \in 0 .. (get_num_channels(dev) - 1) :
                       set_span(set_span(dev, ch, code).dev, ch, code)
                          = set_span(dev, ch, code)]_vars

\* SPAN:ALL 2 on the current device (0, 0) has been answered OK and has
\* moved every channel from the default span to span 2
C33_Witness ==
    /\ Executed({"SET_ALL_SPAN"})
    /\ response = "OK"
    /\ line = BOARD(0) \o DAC(0) \o SPANALL(2)
    /\ dacs[0][0].span = [ch \in 0 .. (LTC2662_NUM_CHANNELS - 1) |-> 2]
    /\ Len(frames) = LTC2662_NUM_CHANNELS


\* the 16-bit data field of a frame
Data(frame) == frame.bytes[2] * 256 + frame.bytes[3]

\* codes the write operations are compared on
SampleCodes == {0, 1, 2048, 4095, 4096, 65535}

\* C34: a CODE command answered OK on a current device sends one frame
\* whose data field is the code times 16 when the device is at 12 bits
\* (low 4 bits zero, the code at most 4095 and read back from the upper 12
\* bits) and the code itself at 16 bits; write_code and write_and_update
\* of a current device give the same data field for every code of
\* SampleCodes within the device's range.
C34_TwelveBitCodeShifted ==
    [][(/\ Executes({"SET_CODE"}) /\ response' = "OK"
        /\ IsCurrentDac(dacs[cmd'.board_id][cmd'.dac_id])) =>
          LET dev == dacs[cmd'.board_id][cmd'.dac_id]
              code == cmd'.int_value
          IN  /\ Len(frames') = 1
              /\ IF dev.resolution_bits = 12
                 THEN /\ code <= 4095
                      /\ Data(frames'[1]) = code * 16
                      /\ Data(frames'[1]) % 16 = 0
                      /\ Data(frames'[1]) \div 16 = code
                 ELSE Data(frames'[1]) = code
              /\ \A ch \in 0 .. (get_num_channels(dev) - 1) :
                 \A k \in {k \in SampleCodes : k <= dev.max_code} :
                    LET shifted == IF dev.resolution_bits = 12
                                   THEN k * 16 ELSE k
                    IN  /\ Data(write_code(dev, ch, k).out[1]) = shifted
                        /\ Data(write_and_update(dev, ch, k).out[1]) = shifted
                        /\ shifted < 65536]_vars

\* CODE 4095 on the current device (0, 0), set to 12 bits, has been sent
\* as 0xFFF0
C34_Witness ==
    /\ Executed({"SET_CODE"})
    /\ response = "OK"
    /\ cmd.board_id = 0 /\ cmd.dac_id = 0 /\ cmd.int_value = 4095
    /\ dacs[0][0].resolution_bits = 12
    /\ Len(frames) = 1
    /\ Data(frames[1]) = 65520


\* the first byte of every frame of the step has one of the six opcodes in
\* its high nibble and a channel of the device in its low nibble
KnownOpcodes ==
    \A k \in DOMAIN frames :
       /\ (frames[k].bytes[1] \div 16) \in {3, 9, 6, 14, 4, 5}
       /\ (frames[k].bytes[1] % 16) < LTC2662_NUM_CHANNELS

\* C35: every frame of a step is three bytes and goes out in one transfer
\* of its own, and the frames the commands send are: CODE, one frame
\* 0x30 | channel with the data high byte and low byte; UPDATE and
\* UPDATE:ALL, 0x90 0 0 per device; SPAN:ALL, 0x60 | channel, 0, span per
\* channel; PDOWN on a channel, 0x40 | channel 0 0; PDOWN on a device,
\* 0x50 0 0; device initialization, 0xE0 0 span followed by 0x90 0 0.
C35_OneThreeByteFrame ==
    /\ \A k \in DOMAIN frames :
          /\ Len(frames[k].bytes) = 3
          /\ \A i \in 1 .. 3 : frames[k].bytes[i] \in 0 .. 255
    /\ KnownOpcodes
    /\ Cardinality(TransferAt(bus)) = Len(frames)
    /\ \A i \in TransferAt(bus) :
          bus[i].bytes = frames[Cardinality({j \in TransferAt(bus) : j <= i})].bytes
    /\ (Executed({"SET_CODE"}) /\ response = "OK") =>
          LET dev == dacs[cmd.board_id][cmd.dac_id]
              data == IF IsCurrentDac(dev) /\ dev.resolution_bits = 12
                      THEN cmd.int_value * 16 ELSE cmd.int_value
          IN  /\ Len(frames) = 1
              /\ frames[1].bytes =
                    <<48 + cmd.channel_id, data \div 256, data % 256>>
    /\ (Executed({"UPDATE", "UPDATE_ALL"}) /\ response = "OK") =>
          /\ frames # <<>>
          /\ \A k \in DOMAIN frames : frames[k].bytes = <<144, 0, 0>>
    /\ (Executed({"SET_ALL_SPAN"}) /\ response = "OK") =>
          \A k \in DOMAIN frames :
             frames[k].bytes = <<96 + (k - 1), 0, frames[k].bytes[3]>>
    /\ (Executed({"POWER_DOWN"}) /\ response = "OK") =>
          \A k \in DOMAIN frames :
             frames[k].bytes = <<64 + cmd.channel_id, 0, 0>>
    /\ (Executed({"POWER_DOWN_CHIP"}) /\ response = "OK") =>
          /\ Len(frames) = 1
          /\ frames[1].bytes = <<80, 0, 0>>
    /\ (pc = "ready" /\ ~cmd.valid /\ frames # <<>>) =>
          /\ Len(frames) = 2 * DACS_PER_BOARD * NUM_BOARDS
          /\ \A k \in DOMAIN frames :
                frames[k].bytes =
                   IF k % 2 = 1
                   THEN <<224, 0,
                          IF frames[k].device = 2 THEN V_PM10 ELSE MA_3_125>>
                   ELSE <<144, 0, 0>>

\* CODE 4095 on channel 4 of the 16-bit current device (0, 0) went out as
\* 0x34 0x0F 0xFF in one transfer
C35_Witness ==
    /\ Executed({"SET_CODE"})
    /\ response = "OK"
    /\ frames = <<[board |-> 0, device |-> 0, bytes |-> <<52, 15, 255>>]>>
    /\ Cardinality(TransferAt(bus)) = 1


\* the step changes nothing but the calibration table: no frame, no bus
\* activity, no latch pulse, and the serial numbers, the devices, the
\* resolutions, the persistent store and the pins are as they were
OnlyCalibrationChanges ==
    /\ frames' = <<>>
    /\ bus' = <<>>
    /\ ldac_pulses' = 0
    /\ UNCHANGED <<serial_numbers_, dacs, resolution_, flash, saved, spi_>>

\* the answer of the get command of type t for the address of the command
\* of this step, in the state after the step
GetAfter(t, answer(_)) ==
    answer([Keep(<<>>, [cmd' EXCEPT !.type = t, !.is_query = TRUE])
               EXCEPT !.calibration_ = calibration_']).response

\* C36: a CAL:GAIN, CAL:OFFS or CAL:EN command answered OK replaces that
\* field of the entry of its (board, device, channel) by the value of the
\* command and leaves the rest of the table, the serial numbers, the
\* devices' spans and resolutions and the persistent store as they were,
\* sends no frame, and the matching query then answers the value.
C36_CalSetChangesOneField ==
    [][/\ (Executes({"SET_CAL_GAIN"}) /\ response' = "OK") =>
             /\ calibration_' =
                   [calibration_ EXCEPT
                       ![cmd'.board_id][cmd'.dac_id][cmd'.channel_id].gain =
                           cmd'.float_value]
             /\ OnlyCalibrationChanges
             /\ GetAfter("GET_CAL_GAIN", execute_get_cal_gain)
                   = FormatFloat(cmd'.float_value)
       /\ (Executes({"SET_CAL_OFFSET"}) /\ response' = "OK") =>
             /\ calibration_' =
                   [calibration_ EXCEPT
                       ![cmd'.board_id][cmd'.dac_id][cmd'.channel_id].offset =
                           cmd'.float_value]
             /\ OnlyCalibrationChanges
             /\ GetAfter("GET_CAL_OFFSET", execute_get_cal_offset)
                   = FormatFloat(cmd'.float_value)
       /\ (Executes({"SET_CAL_ENABLE"}) /\ response' = "OK") =>
             /\ calibration_' =
                   [calibration_ EXCEPT
                       ![cmd'.board_id][cmd'.dac_id][cmd'.channel_id].enabled =
                           (cmd'.int_value # 0)]
             /\ OnlyCalibrationChanges
             /\ GetAfter("GET_CAL_ENABLE", execute_get_cal_enable)
                   = IF cmd'.int_value # 0 THEN "1" ELSE "0"]_vars

\* CAL:GAIN 2.0 on channel 0 of the voltage device of board 0 has been
\* answered OK: that gain is 2, the gain of channel 1 is not
C36_Witness ==
    /\ Executed({"SET_CAL_GAIN"})
    /\ response = "OK"
    /\ cmd.board_id = 0 /\ cmd.dac_id = 2 /\ cmd.channel_id = 0
    /\ calibration_[0][2][0].gain = 2000
    /\ calibration_[0][2][1].gain # 2000
    /\ frames = <<>>


\* the distance between the voltages the round trip is tried on, in
\* thousandths of a volt
SampleStride == 7

\* voltages from the lower to the upper end of a span, both included
SampleVolts(span) ==
    LET info == LTC2664_SPAN_INFO[span + 1]
    IN  {info.min_v + k * SampleStride :
            k \in 0 .. ((info.max_v - info.min_v) \div SampleStride)}
        \cup {info.max_v}

\* |a|
Abs(a) == IF a < 0 THEN 0 - a ELSE a

\* the code of v is within the device's range and converts back to within
\* one code step, (max - min) / max_code, of v
WithinOneStep(dev, channel, v) ==
    LET code == voltage_to_code(dev, channel, v)
        back == code_to_voltage(dev, channel, code)
        info == LTC2664_SPAN_INFO[dev.span[channel] + 1]
    IN  /\ code \in 0 .. dev.max_code
        /\ Abs(back.num - v * back.den) <= info.max_v - info.min_v

\* the voltage device dev set up for bits of resolution, all channels on span
Configured(dev, bits, span) ==
    set_span_all(setup(dev, dev.board_id, dev.device_id, bits), span).dev

\* C39: on the voltage device, in each of its five spans and at either
\* resolution, voltage_to_code of a voltage within the span gives a code of
\* at most max_code whose code_to_voltage is within one code step of the
\* voltage; the code an uncalibrated VOLT command in range has sent is such
\* a code.
C39_VoltageRoundTrip ==
    (Executed({"SET_VOLTAGE"}) /\ response = "OK") =>
       LET dev == dacs[cmd.board_id][cmd.dac_id]
           info == LTC2664_SPAN_INFO[dev.span[cmd.channel_id] + 1]
       IN  /\ \A span \in 0 .. V_PM2_5 : \A bits \in {12, 16} :
                 \A v \in SampleVolts(span) :
                    /\ WithinOneStep(Configured(dev, bits, span), 0, v)
                    /\ WithinOneStep(Configured(dev, bits, span),
                                     LTC2664_NUM_CHANNELS - 1, v)
           /\ (/\ ~calibration_[cmd.board_id][cmd.dac_id][cmd.channel_id].enabled
               /\ cmd.float_value >= info.min_v
               /\ cmd.float_value <= info.max_v) =>
                 /\ Len(frames) = 1
                 /\ Data(frames[1]) =
                       voltage_to_code(dev, cmd.channel_id, cmd.float_value)
                 /\ WithinOneStep(dev, cmd.channel_id, cmd.float_value)

\* VOLT 2.1 on channel 0 of the voltage device of board 0, uncalibrated
\* and on the +-10 V span, has been sent as the code of 2.1 V
C39_Witness ==
    /\ Executed({"SET_VOLTAGE"})
    /\ response = "OK"
    /\ cmd.float_value = 2100
    /\ ~calibration_[0][2][0].enabled
    /\ dacs[0][2].span[0] = V_PM10
    /\ Len(frames) = 1
    /\ Data(frames[1]) = voltage_to_code(dacs[0][2], 0, 2100)
    /\ Data(frames[1]) > 0

=============================================================================
